---- MODULE Spec2Model ----
(***************************************************************************)
(* TruthSea: the TruthDAG edge/score engine (contracts/TruthDAG.sol) on    *)
(* top of the TruthStaking vault (contracts/TruthStaking.sol).             *)
(*                                                                         *)
(* Every external function is one atomic transaction.  A handler is an     *)
(* operator from the world w (all storage of the two contracts, the token  *)
(* ledger and the block time) to a result [err, w]: err = "ok" and the new *)
(* world, or the revert reason and the world the transaction leaves.       *)
(* Token amounts are counted in whole TRUTH (1 ether = 1), time in days.   *)
(***************************************************************************)
EXTENDS Integers, Sequences, FiniteSets, TLC

\* ------------------------------------------------------------------------
\*  Bounds of the model
\* ------------------------------------------------------------------------
NumQuanta == 2          \* quanta 0..NumQuanta-1 exist in the registry
MaxEdges == 2           \* createEdge is explored while nextEdgeId < MaxEdges
InitialBalance == 34    \* TRUTH minted to each staker before the run
MaxTime == 31           \* the clock is advanced while it stays <= MaxTime days
MaxFlags == 2           \* flagWeakLink is explored while an edge has fewer flags
DisputeEdges == 1       \* edges created in the dispute scenario
DeepQuanta == 22        \* quanta of the long-chain scenario
DeepSpare == 1          \* edge ids of the long-chain scenario beyond one per quantum
DeepStake == 10         \* TRUTH staked behind each edge of the long chain
PropQuanta == 3         \* quanta of the propagation scenario
MaxPropagations == 3    \* propagateScore calls explored in the propagation scenario
StakerBalance == 20     \* TRUTH the second staker holds in the creation scenario
SupplyLeft == 21        \* TRUTH still mintable in the scenario near the supply cap

\* ------------------------------------------------------------------------
\*  Program constants
\* ------------------------------------------------------------------------
MAX_CYCLE_CHECK_DEPTH == 20
MAX_SUPPLY == 1000000000
BPS == 10000
DISPUTE_SLASH_BPS == 1000
CHALLENGER_SHARE_BPS == 6000
UINT8_MAX == 255
UINT16_MOD == 65536
MAX_TRUTH_SCORE == 10000
MIN_EDGE_STAKE == 10

ZeroAddr == "0x0"
DagAddr == "dag"
VaultAddr == "vault"
Deployer == "adm"
Principals == {"p1", "p2", "adm"}
Users == Principals \cup {ZeroAddr}
Holders == Principals \cup {ZeroAddr, VaultAddr}

EdgeTypes == {"Depends", "Supports", "Contradicts"}
EdgeStatuses == {"Active", "Disputed", "Invalidated", "Removed"}

ZeroCid == "0"
EVIDENCE_CID == "cid"

VARIABLES
  \* TruthDAG storage
  owner, nextEdgeId, edges, outgoingEdges, incomingEdges, propagatedScores,
  edgeExists, weakLinkFlags, edgeRewardClaimed, config,
  \* TruthStaking storage
  stakes, locked, authorized, stakingOwner,
  \* token ledger, registry, block time
  balanceOf, totalMinted, nextQuantumId, truthScores, now,
  \* the last transaction that succeeded: function, sender, edge or quantum id
  last

dagVars == <<owner, nextEdgeId, edges, outgoingEdges, incomingEdges,
             propagatedScores, edgeExists, weakLinkFlags, edgeRewardClaimed, config>>
vaultVars == <<stakes, locked, authorized, stakingOwner>>
envVars == <<balanceOf, totalMinted, nextQuantumId, truthScores, now>>
stateVars == <<dagVars, vaultVars, envVars>>
vars == <<stateVars, last>>

\* The world a transaction runs in.
World ==
  [owner |-> owner, nextEdgeId |-> nextEdgeId, edges |-> edges,
   outgoingEdges |-> outgoingEdges, incomingEdges |-> incomingEdges,
   propagatedScores |-> propagatedScores, edgeExists |-> edgeExists,
   weakLinkFlags |-> weakLinkFlags, edgeRewardClaimed |-> edgeRewardClaimed,
   config |-> config,
   stakes |-> stakes, locked |-> locked, authorized |-> authorized,
   stakingOwner |-> stakingOwner,
   balanceOf |-> balanceOf, totalMinted |-> totalMinted,
   nextQuantumId |-> nextQuantumId,
   truthScores |-> truthScores, now |-> now]

\* A transaction that reverts leaves the world it started in.
Revert(w0, reason) == [err |-> reason, w |-> w0]
Ok(w1) == [err |-> "ok", w |-> w1]

\* ------------------------------------------------------------------------
\*  Token ledger (ERC20 collaborator)
\* ------------------------------------------------------------------------
\* transfer / transferFrom: debit from, credit to; reverts on a short balance.
\* Every staker has approved the vault for any amount, as the deployment's
\* users do before they stake.
tokenTransfer(w, from, to, amount) ==
  IF w.balanceOf[from] < amount
    THEN Revert(w, "Transfer failed")
    ELSE LET b1 == [w.balanceOf EXCEPT ![from] = @ - amount]
             b2 == [b1 EXCEPT ![to] = @ + amount]
         IN Ok([w EXCEPT !.balanceOf = b2])

\* TruthToken.mint called by the DAG, a registered minter.
tokenMint(w, to, amount) ==
  IF ~(w.totalMinted + amount <= MAX_SUPPLY) THEN Revert(w, "Exceeds max supply")
  ELSE Ok([w EXCEPT !.totalMinted = @ + amount, !.balanceOf[to] = @ + amount])

\* ------------------------------------------------------------------------
\*  TruthStaking
\* ------------------------------------------------------------------------
\* stake that overwrites the record instead of adding to it
stake_overwrite(w, sender, key, amount) ==
  IF ~(amount > 0) THEN Revert(w, "Zero amount")
  ELSE LET t == tokenTransfer(w, sender, VaultAddr, amount)
       IN IF t.err # "ok" THEN Revert(w, "Transfer failed")
          ELSE Ok([t.w EXCEPT !.stakes[sender][key] = amount])

stake(w, sender, key, amount) ==
  IF ~(amount > 0) THEN Revert(w, "Zero amount")
  ELSE LET t == tokenTransfer(w, sender, VaultAddr, amount)
       IN IF t.err # "ok" THEN Revert(w, "Transfer failed")
          ELSE Ok([t.w EXCEPT !.stakes[sender][key] = @ + amount])

unstake(w, sender, key) ==
  LET amount == w.stakes[sender][key]
      w1 == [w EXCEPT !.stakes[sender][key] = 0]
      t == tokenTransfer(w1, VaultAddr, sender, amount)
  IN IF w.locked[sender][key] THEN Revert(w, "Stake is locked")
     ELSE IF ~(amount > 0) THEN Revert(w, "No stake")
     ELSE IF t.err # "ok" THEN Revert(w, "Transfer failed")
     ELSE t

\* lockStake that checks the caller and sets nothing
lockStake_forget(w, sender, user, key) ==
  IF sender \notin w.authorized THEN Revert(w, "Not authorized")
  ELSE Ok(w)

\* Variant: lockStake locks the key for every principal.
lockStake_allUsers(w, sender, user, key) ==
  IF sender \notin w.authorized THEN Revert(w, "Not authorized")
  ELSE Ok([w EXCEPT !.locked = [x \in DOMAIN @ |-> [@[x] EXCEPT ![key] = TRUE]]])

lockStake(w, sender, user, key) ==
  IF sender \notin w.authorized THEN Revert(w, "Not authorized")
  ELSE Ok([w EXCEPT !.locked[user][key] = TRUE])

unlockStake(w, sender, user, key) ==
  IF sender \notin w.authorized THEN Revert(w, "Not authorized")
  ELSE Ok([w EXCEPT !.locked[user][key] = FALSE])

\* slash that rounds the slashed amount up
slash_roundUp(w, sender, user, key, bps) ==
  LET staked == w.stakes[user][key]
      slashAmount == (staked * bps + BPS - 1) \div BPS
  IN IF sender \notin w.authorized THEN Revert(w, "Not authorized")
     ELSE IF ~(bps > 0 /\ bps <= BPS) THEN Revert(w, "Invalid bps")
     ELSE IF ~(staked > 0) THEN Revert(w, "No stake to slash")
     ELSE Ok([w EXCEPT !.stakes[user][key] = @ - slashAmount])

\* Variant: slash releases the lock on the record it reduces.
slash_unlock(w, sender, user, key, bps) ==
  LET staked == w.stakes[user][key]
      slashAmount == (staked * bps) \div BPS
  IN IF sender \notin w.authorized THEN Revert(w, "Not authorized")
     ELSE IF ~(bps > 0 /\ bps <= BPS) THEN Revert(w, "Invalid bps")
     ELSE IF ~(staked > 0) THEN Revert(w, "No stake to slash")
     ELSE Ok([w EXCEPT !.stakes[user][key] = @ - slashAmount,
                       !.locked[user][key] = FALSE])

slash(w, sender, user, key, bps) ==
  LET staked == w.stakes[user][key]
      slashAmount == (staked * bps) \div BPS
  IN IF sender \notin w.authorized THEN Revert(w, "Not authorized")
     ELSE IF ~(bps > 0 /\ bps <= BPS) THEN Revert(w, "Invalid bps")
     ELSE IF ~(staked > 0) THEN Revert(w, "No stake to slash")
     ELSE Ok([w EXCEPT !.stakes[user][key] = @ - slashAmount])

\* Variant: transferStake debits the record and sends no tokens.
transferStake_noTokens(w, sender, from, key, to, amount) ==
  IF sender \notin w.authorized THEN Revert(w, "Not authorized")
  ELSE IF ~(w.stakes[from][key] >= amount) THEN Revert(w, "Insufficient stake")
  ELSE Ok([w EXCEPT !.stakes[from][key] = @ - amount])

transferStake(w, sender, from, key, to, amount) ==
  LET w1 == [w EXCEPT !.stakes[from][key] = @ - amount]
      t == tokenTransfer(w1, VaultAddr, to, amount)
  IN IF sender \notin w.authorized THEN Revert(w, "Not authorized")
     ELSE IF ~(w.stakes[from][key] >= amount) THEN Revert(w, "Insufficient stake")
     ELSE IF t.err # "ok" THEN Revert(w, "Transfer failed")
     ELSE t

\* Variant: refundStake open to every caller.
refundStake_anyCaller(w, sender, user, key) ==
  LET amount == w.stakes[user][key]
      w1 == [w EXCEPT !.stakes[user][key] = 0, !.locked[user][key] = FALSE]
      t == tokenTransfer(w1, VaultAddr, user, amount)
  IN IF ~(amount > 0) THEN Revert(w, "No stake")
     ELSE IF t.err # "ok" THEN Revert(w, "Transfer failed")
     ELSE t

refundStake(w, sender, user, key) ==
  LET amount == w.stakes[user][key]
      w1 == [w EXCEPT !.stakes[user][key] = 0, !.locked[user][key] = FALSE]
      t == tokenTransfer(w1, VaultAddr, user, amount)
  IN IF sender \notin w.authorized THEN Revert(w, "Not authorized")
     ELSE IF ~(amount > 0) THEN Revert(w, "No stake")
     ELSE IF t.err # "ok" THEN Revert(w, "Transfer failed")
     ELSE t

setAuthorized(w, sender, account, status) ==
  IF ~(sender = w.stakingOwner) THEN Revert(w, "Not owner")
  ELSE Ok([w EXCEPT !.authorized = IF status THEN @ \cup {account} ELSE @ \ {account}])

\* transferOwnership of the vault.
TruthStaking_transferOwnership(w, sender, newOwner) ==
  IF ~(sender = w.stakingOwner) THEN Revert(w, "Not owner")
  ELSE IF ~(newOwner # ZeroAddr) THEN Revert(w, "Zero address")
  ELSE Ok([w EXCEPT !.stakingOwner = newOwner])

\* ------------------------------------------------------------------------
\*  TruthDAG: configuration and records
\* ------------------------------------------------------------------------
DefaultConfig ==
  [minEdgeStake |-> 10, propagationFloor |-> 3000, propagationDamping |-> 7000,
   contradictionPenalty |-> 1500, contradictionFloor |-> 4000,
   weakLinkRewardWindow |-> 30, edgeMaturityPeriod |-> 7,
   propagationReward |-> 2, edgeSurvivalReward |-> 20, weakLinkBounty |-> 100,
   weightCorrespondence |-> 3000, weightCoherence |-> 2500,
   weightConvergence |-> 2500, weightPragmatism |-> 2000]

\* A storage slot of the edges mapping that was never written.
EmptyEdge ==
  [id |-> 0, sourceQuantumId |-> 0, targetQuantumId |-> 0, edgeType |-> "Depends",
   status |-> "Active", proposer |-> ZeroAddr, evidenceCid |-> ZeroCid,
   stakeAmount |-> 0, confidence |-> 0, createdAt |-> 0]

ZeroScores == [correspondence |-> 0, coherence |-> 0, convergence |-> 0, pragmatism |-> 0]

EmptyScore ==
  [chainScore |-> 0, weakestLinkScore |-> 0, weakestLinkEdgeId |-> 0,
   lastUpdated |-> 0, depth |-> 0]

\* keccak256(abi.encode("edge", edgeId))
_edgeStakeKey(edgeId) == <<"edge", edgeId>>

\* a dedup key that leaves the edge type out
dedupKey_noType(sourceQuantumId, targetQuantumId, edgeType) ==
  <<sourceQuantumId, targetQuantumId, "Depends">>

\* keccak256(abi.encode(source, target, type))
dedupKey(sourceQuantumId, targetQuantumId, edgeType) ==
  <<sourceQuantumId, targetQuantumId, edgeType>>

\* ------------------------------------------------------------------------
\*  TruthDAG: cycle check
\* ------------------------------------------------------------------------
\* Variant: the search gives up one level earlier.
RECURSIVE _isAcyclic_shallow(_, _, _, _)
_isAcyclic_shallow(w, sourceQuantumId, currentNode, depth) ==
  IF depth >= MAX_CYCLE_CHECK_DEPTH - 1 THEN TRUE
  ELSE LET outs == w.outgoingEdges[currentNode]
       IN \A i \in 1..Len(outs) :
            LET e == w.edges[outs[i]]
            IN \/ e.status # "Active" \/ e.edgeType # "Depends"
               \/ /\ e.sourceQuantumId # sourceQuantumId
                  /\ _isAcyclic_shallow(w, sourceQuantumId, e.sourceQuantumId, depth + 1)

RECURSIVE _isAcyclic(_, _, _, _)
_isAcyclic(w, sourceQuantumId, currentNode, depth) ==
  IF depth >= MAX_CYCLE_CHECK_DEPTH THEN TRUE
  ELSE LET outs == w.outgoingEdges[currentNode]
       IN \A i \in 1..Len(outs) :
            LET e == w.edges[outs[i]]
            IN \/ e.status # "Active" \/ e.edgeType # "Depends"
               \/ /\ e.sourceQuantumId # sourceQuantumId
                  /\ _isAcyclic(w, sourceQuantumId, e.sourceQuantumId, depth + 1)

isAcyclic(w, sourceQuantumId, targetQuantumId) ==
  _isAcyclic(w, targetQuantumId, sourceQuantumId, 0)

\* ------------------------------------------------------------------------
\*  TruthDAG: edge management
\* ------------------------------------------------------------------------
\* Variant: createEdge starting the cycle check at the target.
createEdge_walkFromTarget(w, sender, sourceQuantumId, targetQuantumId, edgeType, evidenceCid, confidence) ==
  LET edgeKey == dedupKey(sourceQuantumId, targetQuantumId, edgeType)
      stakeKey == _edgeStakeKey(w.nextEdgeId)
      stakedAmount == w.stakes[sender][stakeKey]
      lk == lockStake(w, DagAddr, sender, stakeKey)
      edgeId == w.nextEdgeId
      edge == [id |-> edgeId, sourceQuantumId |-> sourceQuantumId,
               targetQuantumId |-> targetQuantumId, edgeType |-> edgeType,
               status |-> "Active", proposer |-> sender, evidenceCid |-> evidenceCid,
               stakeAmount |-> stakedAmount, confidence |-> confidence,
               createdAt |-> w.now]
  IN IF ~(sourceQuantumId # targetQuantumId) THEN Revert(w, "Self-reference")
     ELSE IF ~(confidence <= 10000) THEN Revert(w, "Confidence out of range")
     ELSE IF ~(sourceQuantumId < w.nextQuantumId) THEN Revert(w, "Source quantum does not exist")
     ELSE IF ~(targetQuantumId < w.nextQuantumId) THEN Revert(w, "Target quantum does not exist")
     ELSE IF edgeKey \in w.edgeExists THEN Revert(w, "Edge already exists")
     ELSE IF edgeType = "Depends" /\ ~_isAcyclic(w, sourceQuantumId, targetQuantumId, 0)
       THEN Revert(w, "Would create cycle")
     ELSE IF ~(stakedAmount >= w.config.minEdgeStake) THEN Revert(w, "Insufficient stake")
     ELSE IF lk.err # "ok" THEN Revert(w, lk.err)
     ELSE Ok([lk.w EXCEPT
               !.nextEdgeId = @ + 1,
               !.edges[edgeId] = edge,
               !.edgeExists = @ \cup {edgeKey},
               !.outgoingEdges[targetQuantumId] = Append(@, edgeId),
               !.incomingEdges[sourceQuantumId] = Append(@, edgeId)])

\* Variant: createEdge without the cycle check.
createEdge_noCycleCheck(w, sender, sourceQuantumId, targetQuantumId, edgeType, evidenceCid, confidence) ==
  LET edgeKey == dedupKey(sourceQuantumId, targetQuantumId, edgeType)
      stakeKey == _edgeStakeKey(w.nextEdgeId)
      stakedAmount == w.stakes[sender][stakeKey]
      lk == lockStake(w, DagAddr, sender, stakeKey)
      edgeId == w.nextEdgeId
      edge == [id |-> edgeId, sourceQuantumId |-> sourceQuantumId,
               targetQuantumId |-> targetQuantumId, edgeType |-> edgeType,
               status |-> "Active", proposer |-> sender, evidenceCid |-> evidenceCid,
               stakeAmount |-> stakedAmount, confidence |-> confidence,
               createdAt |-> w.now]
  IN IF ~(sourceQuantumId # targetQuantumId) THEN Revert(w, "Self-reference")
     ELSE IF ~(confidence <= 10000) THEN Revert(w, "Confidence out of range")
     ELSE IF ~(sourceQuantumId < w.nextQuantumId) THEN Revert(w, "Source quantum does not exist")
     ELSE IF ~(targetQuantumId < w.nextQuantumId) THEN Revert(w, "Target quantum does not exist")
     ELSE IF edgeKey \in w.edgeExists THEN Revert(w, "Edge already exists")
     ELSE IF ~(stakedAmount >= w.config.minEdgeStake) THEN Revert(w, "Insufficient stake")
     ELSE IF lk.err # "ok" THEN Revert(w, lk.err)
     ELSE Ok([lk.w EXCEPT
               !.nextEdgeId = @ + 1,
               !.edges[edgeId] = edge,
               !.edgeExists = @ \cup {edgeKey},
               !.outgoingEdges[targetQuantumId] = Append(@, edgeId),
               !.incomingEdges[sourceQuantumId] = Append(@, edgeId)])

\* Variant: createEdge does not enter the edge in the list of its source.
createEdge_noIncoming(w, sender, sourceQuantumId, targetQuantumId, edgeType, evidenceCid, confidence) ==
  LET edgeKey == dedupKey(sourceQuantumId, targetQuantumId, edgeType)
      stakeKey == _edgeStakeKey(w.nextEdgeId)
      stakedAmount == w.stakes[sender][stakeKey]
      lk == lockStake(w, DagAddr, sender, stakeKey)
      edgeId == w.nextEdgeId
      edge == [id |-> edgeId, sourceQuantumId |-> sourceQuantumId,
               targetQuantumId |-> targetQuantumId, edgeType |-> edgeType,
               status |-> "Active", proposer |-> sender, evidenceCid |-> evidenceCid,
               stakeAmount |-> stakedAmount, confidence |-> confidence,
               createdAt |-> w.now]
  IN IF ~(sourceQuantumId # targetQuantumId) THEN Revert(w, "Self-reference")
     ELSE IF ~(confidence <= 10000) THEN Revert(w, "Confidence out of range")
     ELSE IF ~(sourceQuantumId < w.nextQuantumId) THEN Revert(w, "Source quantum does not exist")
     ELSE IF ~(targetQuantumId < w.nextQuantumId) THEN Revert(w, "Target quantum does not exist")
     ELSE IF edgeKey \in w.edgeExists THEN Revert(w, "Edge already exists")
     ELSE IF edgeType = "Depends" /\ ~_isAcyclic(w, targetQuantumId, sourceQuantumId, 0)
       THEN Revert(w, "Would create cycle")
     ELSE IF ~(stakedAmount >= w.config.minEdgeStake) THEN Revert(w, "Insufficient stake")
     ELSE IF lk.err # "ok" THEN Revert(w, lk.err)
     ELSE Ok([lk.w EXCEPT
               !.nextEdgeId = @ + 1,
               !.edges[edgeId] = edge,
               !.edgeExists = @ \cup {edgeKey},
               !.outgoingEdges[targetQuantumId] = Append(@, edgeId)])

createEdge(w, sender, sourceQuantumId, targetQuantumId, edgeType, evidenceCid, confidence) ==
  LET edgeKey == dedupKey(sourceQuantumId, targetQuantumId, edgeType)
      stakeKey == _edgeStakeKey(w.nextEdgeId)
      stakedAmount == w.stakes[sender][stakeKey]
      lk == lockStake(w, DagAddr, sender, stakeKey)
      edgeId == w.nextEdgeId
      edge == [id |-> edgeId, sourceQuantumId |-> sourceQuantumId,
               targetQuantumId |-> targetQuantumId, edgeType |-> edgeType,
               status |-> "Active", proposer |-> sender, evidenceCid |-> evidenceCid,
               stakeAmount |-> stakedAmount, confidence |-> confidence,
               createdAt |-> w.now]
  IN IF ~(sourceQuantumId # targetQuantumId) THEN Revert(w, "Self-reference")
     ELSE IF ~(confidence <= 10000) THEN Revert(w, "Confidence out of range")
     ELSE IF ~(sourceQuantumId < w.nextQuantumId) THEN Revert(w, "Source quantum does not exist")
     ELSE IF ~(targetQuantumId < w.nextQuantumId) THEN Revert(w, "Target quantum does not exist")
     ELSE IF edgeKey \in w.edgeExists THEN Revert(w, "Edge already exists")
     ELSE IF edgeType = "Depends" /\ ~_isAcyclic(w, targetQuantumId, sourceQuantumId, 0)
       THEN Revert(w, "Would create cycle")
     ELSE IF ~(stakedAmount >= w.config.minEdgeStake) THEN Revert(w, "Insufficient stake")
     ELSE IF lk.err # "ok" THEN Revert(w, lk.err)
     ELSE Ok([lk.w EXCEPT
               !.nextEdgeId = @ + 1,
               !.edges[edgeId] = edge,
               !.edgeExists = @ \cup {edgeKey},
               !.outgoingEdges[targetQuantumId] = Append(@, edgeId),
               !.incomingEdges[sourceQuantumId] = Append(@, edgeId)])

\* removeEdge that leaves the dedup slot set
removeEdge_keepSlot(w, sender, edgeId) ==
  LET edge == w.edges[edgeId]
      w1 == [w EXCEPT !.edges[edgeId].status = "Removed"]
      rf == refundStake(w1, DagAddr, sender, _edgeStakeKey(edgeId))
  IN IF ~(edge.proposer = sender) THEN Revert(w, "Not proposer")
     ELSE IF ~(edge.status = "Active") THEN Revert(w, "Not active")
     ELSE IF rf.err # "ok" THEN Revert(w, rf.err)
     ELSE rf

\* Variant: removeEdge does not ask for an Active edge.
removeEdge_anyStatus(w, sender, edgeId) ==
  LET edge == w.edges[edgeId]
      edgeKey == dedupKey(edge.sourceQuantumId, edge.targetQuantumId, edge.edgeType)
      w1 == [w EXCEPT !.edges[edgeId].status = "Removed",
                      !.edgeExists = @ \ {edgeKey}]
      rf == refundStake(w1, DagAddr, sender, _edgeStakeKey(edgeId))
  IN IF ~(edge.proposer = sender) THEN Revert(w, "Not proposer")
     ELSE IF rf.err # "ok" THEN Revert(w, rf.err)
     ELSE rf

removeEdge(w, sender, edgeId) ==
  LET edge == w.edges[edgeId]
      edgeKey == dedupKey(edge.sourceQuantumId, edge.targetQuantumId, edge.edgeType)
      w1 == [w EXCEPT !.edges[edgeId].status = "Removed",
                      !.edgeExists = @ \ {edgeKey}]
      rf == refundStake(w1, DagAddr, sender, _edgeStakeKey(edgeId))
  IN IF ~(edge.proposer = sender) THEN Revert(w, "Not proposer")
     ELSE IF ~(edge.status = "Active") THEN Revert(w, "Not active")
     ELSE IF rf.err # "ok" THEN Revert(w, rf.err)
     ELSE rf

\* One pass over the flags of an edge, from index i on.
RECURSIVE processFlagsFrom(_, _, _)
processFlagsFrom(w, edgeId, i) ==
  LET flags == w.weakLinkFlags[edgeId]
  IN IF i > Len(flags) THEN Ok(w)
     ELSE IF flags[i].resolved THEN processFlagsFrom(w, edgeId, i + 1)
     ELSE LET w1 == [w EXCEPT !.weakLinkFlags[edgeId][i].resolved = TRUE]
          IN IF w.now <= flags[i].flaggedAt + w.config.weakLinkRewardWindow
               THEN LET w2 == [w1 EXCEPT !.weakLinkFlags[edgeId][i].rewarded = TRUE]
                        mt == tokenMint(w2, flags[i].flagger, w.config.weakLinkBounty)
                    IN IF mt.err # "ok" THEN mt
                       ELSE processFlagsFrom(mt.w, edgeId, i + 1)
               ELSE processFlagsFrom(w1, edgeId, i + 1)

\* Variant: the reward window closes one time unit early (< for <=).
_processWeakLinkRewards_strictWindow(w, edgeId) ==
  LET r == processFlagsFrom([w EXCEPT !.now = @ + 1], edgeId, 1)
  IN [err |-> r.err, w |-> [r.w EXCEPT !.now = w.now]]

\* Variant: the pass does not skip flags that are already resolved.
RECURSIVE processFlagsFrom_payResolved(_, _, _)
processFlagsFrom_payResolved(w, edgeId, i) ==
  LET flags == w.weakLinkFlags[edgeId]
  IN IF i > Len(flags) THEN Ok(w)
     ELSE LET w1 == [w EXCEPT !.weakLinkFlags[edgeId][i].resolved = TRUE]
          IN IF w.now <= flags[i].flaggedAt + w.config.weakLinkRewardWindow
               THEN LET w2 == [w1 EXCEPT !.weakLinkFlags[edgeId][i].rewarded = TRUE]
                        mt == tokenMint(w2, flags[i].flagger, w.config.weakLinkBounty)
                    IN IF mt.err # "ok" THEN mt
                       ELSE processFlagsFrom_payResolved(mt.w, edgeId, i + 1)
               ELSE processFlagsFrom_payResolved(w1, edgeId, i + 1)

_processWeakLinkRewards_payResolved(w, edgeId) ==
  processFlagsFrom_payResolved(w, edgeId, 1)

_processWeakLinkRewards(w, edgeId) == processFlagsFrom(w, edgeId, 1)

\* disputeEdge that takes the challenger's share of the stake before the slash
disputeEdge_preSlashShare(w, sender, edgeId) ==
  LET edge == w.edges[edgeId]
      stakeKey == _edgeStakeKey(edgeId)
      w1 == [w EXCEPT !.edges[edgeId].status = "Disputed"]
      sl == slash(w1, DagAddr, edge.proposer, stakeKey, DISPUTE_SLASH_BPS)
      challengerReward == (w.stakes[edge.proposer][stakeKey] * CHALLENGER_SHARE_BPS) \div BPS
      tr == IF challengerReward > 0
              THEN transferStake(sl.w, DagAddr, edge.proposer, stakeKey, sender, challengerReward)
              ELSE Ok(sl.w)
      mt == tokenMint(tr.w, sender, w.config.edgeSurvivalReward)
      pr == _processWeakLinkRewards(mt.w, edgeId)
  IN IF ~(edge.status = "Active") THEN Revert(w, "Edge not active")
     ELSE IF ~(edge.proposer # sender) THEN Revert(w, "Cannot dispute own edge")
     ELSE IF sl.err # "ok" THEN Revert(w, sl.err)
     ELSE IF tr.err # "ok" THEN Revert(w, tr.err)
     ELSE IF mt.err # "ok" THEN Revert(w, mt.err)
     ELSE IF pr.err # "ok" THEN Revert(w, pr.err)
     ELSE pr

\* Variant: disputeEdge without the check of the edge status.
disputeEdge_anyStatus(w, sender, edgeId) ==
  LET edge == w.edges[edgeId]
      stakeKey == _edgeStakeKey(edgeId)
      w1 == [w EXCEPT !.edges[edgeId].status = "Disputed"]
      sl == slash(w1, DagAddr, edge.proposer, stakeKey, DISPUTE_SLASH_BPS)
      remainingStake == sl.w.stakes[edge.proposer][stakeKey]
      challengerReward == (remainingStake * CHALLENGER_SHARE_BPS) \div BPS
      tr == IF challengerReward > 0
              THEN transferStake(sl.w, DagAddr, edge.proposer, stakeKey, sender, challengerReward)
              ELSE Ok(sl.w)
      mt == tokenMint(tr.w, sender, w.config.edgeSurvivalReward)
      pr == _processWeakLinkRewards(mt.w, edgeId)
  IN IF ~(edge.proposer # sender) THEN Revert(w, "Cannot dispute own edge")
     ELSE IF sl.err # "ok" THEN Revert(w, sl.err)
     ELSE IF tr.err # "ok" THEN Revert(w, tr.err)
     ELSE IF mt.err # "ok" THEN Revert(w, mt.err)
     ELSE IF pr.err # "ok" THEN Revert(w, pr.err)
     ELSE pr

disputeEdge(w, sender, edgeId) ==
  LET edge == w.edges[edgeId]
      stakeKey == _edgeStakeKey(edgeId)
      w1 == [w EXCEPT !.edges[edgeId].status = "Disputed"]
      sl == slash(w1, DagAddr, edge.proposer, stakeKey, DISPUTE_SLASH_BPS)
      remainingStake == sl.w.stakes[edge.proposer][stakeKey]
      challengerReward == (remainingStake * CHALLENGER_SHARE_BPS) \div BPS
      tr == IF challengerReward > 0
              THEN transferStake(sl.w, DagAddr, edge.proposer, stakeKey, sender, challengerReward)
              ELSE Ok(sl.w)
      mt == tokenMint(tr.w, sender, w.config.edgeSurvivalReward)
      pr == _processWeakLinkRewards(mt.w, edgeId)
  IN IF ~(edge.status = "Active") THEN Revert(w, "Edge not active")
     ELSE IF ~(edge.proposer # sender) THEN Revert(w, "Cannot dispute own edge")
     ELSE IF sl.err # "ok" THEN Revert(w, sl.err)
     ELSE IF tr.err # "ok" THEN Revert(w, tr.err)
     ELSE IF mt.err # "ok" THEN Revert(w, mt.err)
     ELSE IF pr.err # "ok" THEN Revert(w, pr.err)
     ELSE pr

\* Variant: invalidateEdge also clears the stored score of the edge's target.
invalidateEdge_clearScore(w, sender, edgeId) ==
  LET edge == w.edges[edgeId]
      edgeKey == dedupKey(edge.sourceQuantumId, edge.targetQuantumId, edge.edgeType)
      w1 == [w EXCEPT !.edges[edgeId].status = "Invalidated",
                      !.edgeExists = @ \ {edgeKey},
                      !.propagatedScores[edge.targetQuantumId] = EmptyScore]
      pr == _processWeakLinkRewards(w1, edgeId)
  IN IF ~(sender = w.owner) THEN Revert(w, "Not owner")
     ELSE IF ~(edge.status = "Active" \/ edge.status = "Disputed") THEN Revert(w, "Cannot invalidate")
     ELSE IF pr.err # "ok" THEN Revert(w, pr.err)
     ELSE pr

invalidateEdge(w, sender, edgeId) ==
  LET edge == w.edges[edgeId]
      edgeKey == dedupKey(edge.sourceQuantumId, edge.targetQuantumId, edge.edgeType)
      w1 == [w EXCEPT !.edges[edgeId].status = "Invalidated",
                      !.edgeExists = @ \ {edgeKey}]
      pr == _processWeakLinkRewards(w1, edgeId)
  IN IF ~(sender = w.owner) THEN Revert(w, "Not owner")
     ELSE IF ~(edge.status = "Active" \/ edge.status = "Disputed") THEN Revert(w, "Cannot invalidate")
     ELSE IF pr.err # "ok" THEN Revert(w, pr.err)
     ELSE pr

\* Variant: claimEdgeReward without the check of the claimed mark.
claimEdgeReward_noClaimedCheck(w, sender, edgeId) ==
  LET edge == w.edges[edgeId]
      w1 == [w EXCEPT !.edgeRewardClaimed[edgeId] = TRUE]
      mt == tokenMint(w1, sender, w.config.edgeSurvivalReward)
  IN IF ~(edge.proposer = sender) THEN Revert(w, "Not proposer")
     ELSE IF ~(edge.status = "Active") THEN Revert(w, "Not active")
     ELSE IF ~(w.now >= edge.createdAt + w.config.edgeMaturityPeriod) THEN Revert(w, "Not mature")
     ELSE IF mt.err # "ok" THEN Revert(w, mt.err)
     ELSE mt

claimEdgeReward(w, sender, edgeId) ==
  LET edge == w.edges[edgeId]
      w1 == [w EXCEPT !.edgeRewardClaimed[edgeId] = TRUE]
      mt == tokenMint(w1, sender, w.config.edgeSurvivalReward)
  IN IF ~(edge.proposer = sender) THEN Revert(w, "Not proposer")
     ELSE IF ~(edge.status = "Active") THEN Revert(w, "Not active")
     ELSE IF ~(w.now >= edge.createdAt + w.config.edgeMaturityPeriod) THEN Revert(w, "Not mature")
     ELSE IF w.edgeRewardClaimed[edgeId] THEN Revert(w, "Already claimed")
     ELSE IF mt.err # "ok" THEN Revert(w, mt.err)
     ELSE mt

flagWeakLink(w, sender, edgeId) ==
  LET edge == w.edges[edgeId]
      flag == [flagger |-> sender, flaggedAt |-> w.now,
               resolved |-> FALSE, rewarded |-> FALSE]
  IN IF ~(edge.status = "Active") THEN Revert(w, "Edge not active")
     ELSE Ok([w EXCEPT !.weakLinkFlags[edgeId] = Append(@, flag)])

\* Variant: the first loop without its status filter.
RECURSIVE scanOutEdges_anyStatus(_, _, _, _)
scanOutEdges_anyStatus(w, outEdges, i, acc) ==
  IF i > Len(outEdges) \/ acc.panic THEN acc
  ELSE LET e == w.edges[outEdges[i]]
           depChainScore == w.propagatedScores[e.sourceQuantumId].chainScore
           effective == IF depChainScore < e.confidence THEN depChainScore ELSE e.confidence
           counted == [acc EXCEPT !.depCount = @ + 1]
       IN IF FALSE THEN scanOutEdges_anyStatus(w, outEdges, i + 1, acc)
          ELSE IF e.edgeType = "Depends"
            THEN IF acc.depCount = UINT8_MAX
                   THEN [acc EXCEPT !.panic = TRUE]
                   ELSE scanOutEdges_anyStatus(w, outEdges, i + 1,
                          IF effective < acc.weakestScore
                            THEN [counted EXCEPT !.weakestScore = effective,
                                                 !.weakestEdgeId = e.id]
                            ELSE counted)
          ELSE IF e.edgeType = "Contradicts"
            THEN IF acc.contradictionCount = UINT8_MAX
                   THEN [acc EXCEPT !.panic = TRUE]
                   ELSE scanOutEdges_anyStatus(w, outEdges, i + 1,
                                     [acc EXCEPT !.contradictionCount = @ + 1])
          ELSE scanOutEdges_anyStatus(w, outEdges, i + 1, acc)

\* ------------------------------------------------------------------------
\*  TruthDAG: score propagation
\* ------------------------------------------------------------------------
\* First loop of propagateScore over the edges that point at the quantum,
\* from index i on.  depCount and contradictionCount are uint8: ++ aborts
\* the call at UINT8_MAX.
\* Variant: the first loop counts Supports edges with the Contradicts edges.
RECURSIVE scanOutEdges_anyType(_, _, _, _)
scanOutEdges_anyType(w, outEdges, i, acc) ==
  IF i > Len(outEdges) \/ acc.panic THEN acc
  ELSE LET e == w.edges[outEdges[i]]
           depChainScore == w.propagatedScores[e.sourceQuantumId].chainScore
           effective == IF depChainScore < e.confidence THEN depChainScore ELSE e.confidence
           counted == [acc EXCEPT !.depCount = @ + 1]
       IN IF e.status # "Active" THEN scanOutEdges_anyType(w, outEdges, i + 1, acc)
          ELSE IF e.edgeType = "Depends"
            THEN IF acc.depCount = UINT8_MAX
                   THEN [acc EXCEPT !.panic = TRUE]
                   ELSE scanOutEdges_anyType(w, outEdges, i + 1,
                          IF effective < acc.weakestScore
                            THEN [counted EXCEPT !.weakestScore = effective,
                                                 !.weakestEdgeId = e.id]
                            ELSE counted)
          ELSE IF e.edgeType \in {"Contradicts", "Supports"}
            THEN IF acc.contradictionCount = UINT8_MAX
                   THEN [acc EXCEPT !.panic = TRUE]
                   ELSE scanOutEdges_anyType(w, outEdges, i + 1,
                                     [acc EXCEPT !.contradictionCount = @ + 1])
          ELSE scanOutEdges_anyType(w, outEdges, i + 1, acc)

RECURSIVE scanOutEdges(_, _, _, _)
scanOutEdges(w, outEdges, i, acc) ==
  IF i > Len(outEdges) \/ acc.panic THEN acc
  ELSE LET e == w.edges[outEdges[i]]
           depChainScore == w.propagatedScores[e.sourceQuantumId].chainScore
           effective == IF depChainScore < e.confidence THEN depChainScore ELSE e.confidence
           counted == [acc EXCEPT !.depCount = @ + 1]
       IN IF e.status # "Active" THEN scanOutEdges(w, outEdges, i + 1, acc)
          ELSE IF e.edgeType = "Depends"
            THEN IF acc.depCount = UINT8_MAX
                   THEN [acc EXCEPT !.panic = TRUE]
                   ELSE scanOutEdges(w, outEdges, i + 1,
                          IF effective < acc.weakestScore
                            THEN [counted EXCEPT !.weakestScore = effective,
                                                 !.weakestEdgeId = e.id]
                            ELSE counted)
          ELSE IF e.edgeType = "Contradicts"
            THEN IF acc.contradictionCount = UINT8_MAX
                   THEN [acc EXCEPT !.panic = TRUE]
                   ELSE scanOutEdges(w, outEdges, i + 1,
                                     [acc EXCEPT !.contradictionCount = @ + 1])
          ELSE scanOutEdges(w, outEdges, i + 1, acc)

\* Variant: the second loop reading the depth stored for the quantum itself.
RECURSIVE scanDepth_ownDepth(_, _, _, _)
scanDepth_ownDepth(w, outEdges, i, acc) ==
  IF i > Len(outEdges) \/ acc.panic THEN acc
  ELSE LET e == w.edges[outEdges[i]]
           depDepth == w.propagatedScores[e.targetQuantumId].depth
       IN IF e.status # "Active" \/ e.edgeType # "Depends"
            THEN scanDepth_ownDepth(w, outEdges, i + 1, acc)
          ELSE IF depDepth = UINT8_MAX THEN [acc EXCEPT !.panic = TRUE]
          ELSE scanDepth_ownDepth(w, outEdges, i + 1,
                         IF depDepth + 1 > acc.depth
                           THEN [acc EXCEPT !.depth = depDepth + 1] ELSE acc)

\* Second loop: depth = max dependency depth + 1, in uint8.
RECURSIVE scanDepth(_, _, _, _)
scanDepth(w, outEdges, i, acc) ==
  IF i > Len(outEdges) \/ acc.panic THEN acc
  ELSE LET e == w.edges[outEdges[i]]
           depDepth == w.propagatedScores[e.sourceQuantumId].depth
       IN IF e.status # "Active" \/ e.edgeType # "Depends"
            THEN scanDepth(w, outEdges, i + 1, acc)
          ELSE IF depDepth = UINT8_MAX THEN [acc EXCEPT !.panic = TRUE]
          ELSE scanDepth(w, outEdges, i + 1,
                         IF depDepth + 1 > acc.depth
                           THEN [acc EXCEPT !.depth = depDepth + 1] ELSE acc)

\* Variant: the stored chain score is the mean of the new and the old one.
propagateScore_blend(w, sender, quantumId) ==
  LET q == w.truthScores[quantumId]
      intrinsic == (q.correspondence * w.config.weightCorrespondence
                    + q.coherence * w.config.weightCoherence
                    + q.convergence * w.config.weightConvergence
                    + q.pragmatism * w.config.weightPragmatism) \div 10000
      outEdges == w.outgoingEdges[quantumId]
      first == scanOutEdges(w, outEdges, 1,
                 [weakestScore |-> 10000, weakestEdgeId |-> 0, depCount |-> 0,
                  contradictionCount |-> 0, panic |-> FALSE])
      factor == w.config.propagationFloor
                + (w.config.propagationDamping * first.weakestScore) \div 10000
      second == IF first.depCount = 0 THEN [depth |-> 0, panic |-> FALSE]
                ELSE scanDepth(w, outEdges, 1, [depth |-> 0, panic |-> FALSE])
      attenuated == IF first.depCount = 0 THEN intrinsic % UINT16_MOD
                    ELSE ((intrinsic * factor) \div 10000) % UINT16_MOD
      penalty == first.contradictionCount * w.config.contradictionPenalty
      above == IF 10000 > penalty THEN 10000 - penalty ELSE w.config.contradictionFloor
      multiplier == IF above < w.config.contradictionFloor
                      THEN w.config.contradictionFloor ELSE above
      chainScore == IF first.contradictionCount > 0
                      THEN ((attenuated * multiplier) \div 10000) % UINT16_MOD
                      ELSE attenuated
      record == [chainScore |-> (chainScore + w.propagatedScores[quantumId].chainScore) \div 2,
                 weakestLinkScore |-> IF first.depCount > 0 THEN first.weakestScore
                                      ELSE intrinsic % UINT16_MOD,
                 weakestLinkEdgeId |-> first.weakestEdgeId,
                 lastUpdated |-> w.now,
                 depth |-> second.depth]
      w1 == [w EXCEPT !.propagatedScores[quantumId] = record]
      mt == tokenMint(w1, sender, w.config.propagationReward)
  IN IF first.panic \/ second.panic THEN Revert(w, "Panic")
     ELSE IF mt.err # "ok" THEN Revert(w, mt.err)
     ELSE mt

\* Variant: the attenuation factor does not look at the weakest dependency.
propagateScore_flatFactor(w, sender, quantumId) ==
  LET q == w.truthScores[quantumId]
      intrinsic == (q.correspondence * w.config.weightCorrespondence
                    + q.coherence * w.config.weightCoherence
                    + q.convergence * w.config.weightConvergence
                    + q.pragmatism * w.config.weightPragmatism) \div 10000
      outEdges == w.outgoingEdges[quantumId]
      first == scanOutEdges(w, outEdges, 1,
                 [weakestScore |-> 10000, weakestEdgeId |-> 0, depCount |-> 0,
                  contradictionCount |-> 0, panic |-> FALSE])
      factor == w.config.propagationFloor + w.config.propagationDamping
      second == IF first.depCount = 0 THEN [depth |-> 0, panic |-> FALSE]
                ELSE scanDepth(w, outEdges, 1, [depth |-> 0, panic |-> FALSE])
      attenuated == IF first.depCount = 0 THEN intrinsic % UINT16_MOD
                    ELSE ((intrinsic * factor) \div 10000) % UINT16_MOD
      penalty == first.contradictionCount * w.config.contradictionPenalty
      above == IF 10000 > penalty THEN 10000 - penalty ELSE w.config.contradictionFloor
      multiplier == IF above < w.config.contradictionFloor
                      THEN w.config.contradictionFloor ELSE above
      chainScore == IF first.contradictionCount > 0
                      THEN ((attenuated * multiplier) \div 10000) % UINT16_MOD
                      ELSE attenuated
      record == [chainScore |-> chainScore,
                 weakestLinkScore |-> IF first.depCount > 0 THEN first.weakestScore
                                      ELSE intrinsic % UINT16_MOD,
                 weakestLinkEdgeId |-> first.weakestEdgeId,
                 lastUpdated |-> w.now,
                 depth |-> second.depth]
      w1 == [w EXCEPT !.propagatedScores[quantumId] = record]
      mt == tokenMint(w1, sender, w.config.propagationReward)
  IN IF first.panic \/ second.panic THEN Revert(w, "Panic")
     ELSE IF mt.err # "ok" THEN Revert(w, mt.err)
     ELSE mt

propagateScore(w, sender, quantumId) ==
  LET q == w.truthScores[quantumId]
      intrinsic == (q.correspondence * w.config.weightCorrespondence
                    + q.coherence * w.config.weightCoherence
                    + q.convergence * w.config.weightConvergence
                    + q.pragmatism * w.config.weightPragmatism) \div 10000
      outEdges == w.outgoingEdges[quantumId]
      first == scanOutEdges(w, outEdges, 1,
                 [weakestScore |-> 10000, weakestEdgeId |-> 0, depCount |-> 0,
                  contradictionCount |-> 0, panic |-> FALSE])
      factor == w.config.propagationFloor
                + (w.config.propagationDamping * first.weakestScore) \div 10000
      second == IF first.depCount = 0 THEN [depth |-> 0, panic |-> FALSE]
                ELSE scanDepth(w, outEdges, 1, [depth |-> 0, panic |-> FALSE])
      attenuated == IF first.depCount = 0 THEN intrinsic % UINT16_MOD
                    ELSE ((intrinsic * factor) \div 10000) % UINT16_MOD
      penalty == first.contradictionCount * w.config.contradictionPenalty
      above == IF 10000 > penalty THEN 10000 - penalty ELSE w.config.contradictionFloor
      multiplier == IF above < w.config.contradictionFloor
                      THEN w.config.contradictionFloor ELSE above
      chainScore == IF first.contradictionCount > 0
                      THEN ((attenuated * multiplier) \div 10000) % UINT16_MOD
                      ELSE attenuated
      record == [chainScore |-> chainScore,
                 weakestLinkScore |-> IF first.depCount > 0 THEN first.weakestScore
                                      ELSE intrinsic % UINT16_MOD,
                 weakestLinkEdgeId |-> first.weakestEdgeId,
                 lastUpdated |-> w.now,
                 depth |-> second.depth]
      w1 == [w EXCEPT !.propagatedScores[quantumId] = record]
      mt == tokenMint(w1, sender, w.config.propagationReward)
  IN IF first.panic \/ second.panic THEN Revert(w, "Panic")
     ELSE IF mt.err # "ok" THEN Revert(w, mt.err)
     ELSE mt

\* The loop of batchPropagateScores from index i on; w0 is the world the
\* transaction started in.
RECURSIVE batchFrom(_, _, _, _, _)
batchFrom(w0, w, sender, quantumIds, i) ==
  IF i > Len(quantumIds) THEN Ok(w)
  ELSE LET r == propagateScore(w, sender, quantumIds[i])
       IN IF r.err # "ok" THEN Revert(w0, r.err)
          ELSE batchFrom(w0, r.w, sender, quantumIds, i + 1)

\* a batch that keeps the records stored before the element that failed
batchPropagateScores_keepPrefix(w, sender, quantumIds) ==
  LET r == batchFrom(w, w, sender, quantumIds, 1)
      head == propagateScore(w, sender, quantumIds[1])
  IN IF r.err = "ok" \/ quantumIds = << >> THEN r
     ELSE [err |-> r.err, w |-> head.w]

\* Variant: the batch walks the list from its last element to its first.
batchPropagateScores_reversed(w, sender, quantumIds) ==
  batchFrom(w, w, sender,
            [i \in 1..Len(quantumIds) |-> quantumIds[Len(quantumIds) + 1 - i]], 1)

batchPropagateScores(w, sender, quantumIds) ==
  batchFrom(w, w, sender, quantumIds, 1)

\* ------------------------------------------------------------------------
\*  TruthDAG: admin
\* ------------------------------------------------------------------------
setConfig(w, sender, c) ==
  IF ~(sender = w.owner) THEN Revert(w, "Not owner")
  ELSE Ok([w EXCEPT
        !.config.minEdgeStake = c.minEdgeStake,
        !.config.propagationFloor = c.propagationFloor,
        !.config.propagationDamping = c.propagationDamping,
        !.config.contradictionPenalty = c.contradictionPenalty,
        !.config.contradictionFloor = c.contradictionFloor,
        !.config.weakLinkRewardWindow = c.weakLinkRewardWindow,
        !.config.edgeMaturityPeriod = c.edgeMaturityPeriod,
        !.config.propagationReward = c.propagationReward,
        !.config.edgeSurvivalReward = c.edgeSurvivalReward,
        !.config.weakLinkBounty = c.weakLinkBounty])

\* Variant: setWeights without the check of the sum.
setWeights_anySum(w, sender, _correspondence, _coherence, _convergence, _pragmatism) ==
  IF ~(sender = w.owner) THEN Revert(w, "Not owner")
  ELSE Ok([w EXCEPT
        !.config.weightCorrespondence = _correspondence,
        !.config.weightCoherence = _coherence,
        !.config.weightConvergence = _convergence,
        !.config.weightPragmatism = _pragmatism])

setWeights(w, sender, _correspondence, _coherence, _convergence, _pragmatism) ==
  IF ~(sender = w.owner) THEN Revert(w, "Not owner")
  ELSE IF ~(_correspondence + _coherence + _convergence + _pragmatism = 10000)
    THEN Revert(w, "Weights must sum to 10000")
  ELSE Ok([w EXCEPT
        !.config.weightCorrespondence = _correspondence,
        !.config.weightCoherence = _coherence,
        !.config.weightConvergence = _convergence,
        !.config.weightPragmatism = _pragmatism])

\* transferOwnership of the engine.
transferOwnership(w, sender, newOwner) ==
  IF ~(sender = w.owner) THEN Revert(w, "Not owner")
  ELSE IF ~(newOwner # ZeroAddr) THEN Revert(w, "Zero address")
  ELSE Ok([w EXCEPT !.owner = newOwner])

\* ------------------------------------------------------------------------
\*  Transactions
\* ------------------------------------------------------------------------
\* The transaction op(id) sent by sender ends with the result r.  A reverted
\* transaction leaves no trace: last names the last transaction that succeeded.
Commit(op, sender, id, r) ==
  /\ last' = IF r.err = "ok" THEN [op |-> op, sender |-> sender, id |-> id] ELSE last
  /\ owner' = r.w.owner
  /\ nextEdgeId' = r.w.nextEdgeId
  /\ edges' = r.w.edges
  /\ outgoingEdges' = r.w.outgoingEdges
  /\ incomingEdges' = r.w.incomingEdges
  /\ propagatedScores' = r.w.propagatedScores
  /\ edgeExists' = r.w.edgeExists
  /\ weakLinkFlags' = r.w.weakLinkFlags
  /\ edgeRewardClaimed' = r.w.edgeRewardClaimed
  /\ config' = r.w.config
  /\ stakes' = r.w.stakes
  /\ locked' = r.w.locked
  /\ authorized' = r.w.authorized
  /\ stakingOwner' = r.w.stakingOwner
  /\ balanceOf' = r.w.balanceOf
  /\ totalMinted' = r.w.totalMinted
  /\ nextQuantumId' = r.w.nextQuantumId
  /\ truthScores' = r.w.truthScores
  /\ now' = r.w.now

\* ------------------------------------------------------------------------
\*  Inputs of the explored transactions
\* ------------------------------------------------------------------------
Proposers == {"p1"}              \* principals that hold TRUTH at deployment
EdgeIds == 0..MaxEdges           \* MaxEdges itself is never allocated
QuantumIds == 0..NumQuanta       \* NumQuanta itself does not exist
StakeIds == 0..(MaxEdges - 1)
Amounts == {0, 17}
Confidences == {9000, 10001}
TRUTH_SCORES == [correspondence |-> 8000, coherence |-> 7500,
                convergence |-> 8500, pragmatism |-> 9000]

\* The state after deployment; scores[q] are the sub-scores the registry
\* holds for quantum q.
InitWorldWith(edgeIds, quantumIds, nQuanta, bal, minted, scores) ==
  /\ owner = Deployer
  /\ nextEdgeId = 0
  /\ edges = [e \in edgeIds |-> EmptyEdge]
  /\ outgoingEdges = [q \in quantumIds |-> << >>]
  /\ incomingEdges = [q \in quantumIds |-> << >>]
  /\ propagatedScores = [q \in quantumIds |-> EmptyScore]
  /\ edgeExists = {}
  /\ weakLinkFlags = [e \in edgeIds |-> << >>]
  /\ edgeRewardClaimed = [e \in edgeIds |-> FALSE]
  /\ config = DefaultConfig
  /\ stakes = [u \in Users |-> [k \in {_edgeStakeKey(i) : i \in edgeIds} |-> 0]]
  /\ locked = [u \in Users |-> [k \in {_edgeStakeKey(i) : i \in edgeIds} |-> FALSE]]
  /\ authorized = {DagAddr}
  /\ stakingOwner = Deployer
  /\ balanceOf = bal
  /\ totalMinted = minted
  /\ nextQuantumId = nQuanta
  /\ truthScores = [q \in quantumIds |-> IF q < nQuanta THEN scores[q] ELSE ZeroScores]
  /\ now = 0
  /\ last = [op |-> "deploy", sender |-> Deployer, id |-> 0]

InitWorld(edgeIds, quantumIds, nQuanta, bal, minted) ==
  InitWorldWith(edgeIds, quantumIds, nQuanta, bal, minted,
                [q \in quantumIds |-> TRUTH_SCORES])

Init ==
  InitWorld(EdgeIds, QuantumIds, NumQuanta,
            [h \in Holders |-> IF h \in Proposers THEN InitialBalance ELSE 0],
            InitialBalance * Cardinality(Proposers))

\* One transaction of each kind, its arguments drawn from the given sets.
StakeTx(senders, ids, amounts) ==
  \E sender \in senders, i \in ids, amount \in amounts :
    Commit("stake", sender, i, stake(World, sender, _edgeStakeKey(i), amount))

UnstakeTx(senders, ids) ==
  \E sender \in senders, i \in ids :
    Commit("unstake", sender, i, unstake(World, sender, _edgeStakeKey(i)))

CreateEdgeTx(senders, quanta, types, confs) ==
  \E sender \in senders, s \in quanta, t \in quanta, ty \in types, conf \in confs :
    Commit("createEdge", sender, nextEdgeId,
           createEdge(World, sender, s, t, ty, EVIDENCE_CID, conf))

RemoveEdgeTx(senders, ids) ==
  \E sender \in senders, e \in ids :
    Commit("removeEdge", sender, e, removeEdge(World, sender, e))

DisputeEdgeTx(senders, ids) ==
  \E sender \in senders, e \in ids :
    Commit("disputeEdge", sender, e, disputeEdge(World, sender, e))

InvalidateEdgeTx(senders, ids) ==
  \E sender \in senders, e \in ids :
    Commit("invalidateEdge", sender, e, invalidateEdge(World, sender, e))

FlagWeakLinkTx(senders, ids) ==
  \E sender \in senders, e \in ids :
    /\ Len(weakLinkFlags[e]) < MaxFlags
    /\ Commit("flagWeakLink", sender, e, flagWeakLink(World, sender, e))

SetConfigTx(senders, choices) ==
  \E sender \in senders, c \in choices :
    Commit("setConfig", sender, 0, setConfig(World, sender, c))

ClaimEdgeRewardTx(senders, ids) ==
  \E sender \in senders, e \in ids :
    Commit("claimEdgeReward", sender, e, claimEdgeReward(World, sender, e))

PropagateScoreTx(senders, quanta) ==
  \E sender \in senders, q \in quanta :
    Commit("propagateScore", sender, q, propagateScore(World, sender, q))

BatchPropagateScoresTx(senders, lists) ==
  \E sender \in senders, l \in lists :
    Commit("batchPropagateScores", sender, Len(l),
           batchPropagateScores(World, sender, l))

\* Block time moves forward by d.
TickTx(steps, maxTime) ==
  \E d \in steps :
    /\ now + d <= maxTime
    /\ now' = now + d
    /\ UNCHANGED <<dagVars, vaultVars, balanceOf, totalMinted, nextQuantumId, truthScores, last>>

\* ------------------------------------------------------------------------
\*  Spec: the edge lifecycle over the vault
\* ------------------------------------------------------------------------
Stake == StakeTx(Proposers, StakeIds, Amounts)
Unstake == UnstakeTx(Principals, StakeIds)
CreateEdge ==
  nextEdgeId < MaxEdges /\ CreateEdgeTx(Principals, QuantumIds, EdgeTypes, Confidences)
RemoveEdge == RemoveEdgeTx(Principals, EdgeIds)
DisputeEdge == DisputeEdgeTx(Principals, EdgeIds)
InvalidateEdge == InvalidateEdgeTx(Principals, EdgeIds)

Next ==
  \/ Stake
  \/ Unstake
  \/ CreateEdge
  \/ RemoveEdge
  \/ DisputeEdge
  \/ InvalidateEdge

Spec == Init /\ [][Next]_vars

\* ------------------------------------------------------------------------
\*  Vocabulary of the properties
\* ------------------------------------------------------------------------
CreatedEdges == {e \in DOMAIN edges : e < nextEdgeId}
Triple(e) == <<edges[e].sourceQuantumId, edges[e].targetQuantumId, edges[e].edgeType>>
Live(e) == edges[e].status \in {"Active", "Disputed"}
LiveWith(s, t, ty) == {e \in CreatedEdges : Live(e) /\ Triple(e) = <<s, t, ty>>}
ExistingQuanta == {q \in DOMAIN outgoingEdges : q < nextQuantumId}
ValidConfidences == {c \in Confidences : c <= 10000}
\* The preconditions of createEdge other than the duplicate check.
OtherPreconditions(sender, s, t, ty) ==
  /\ s # t /\ s \in ExistingQuanta /\ t \in ExistingQuanta
  /\ ty = "Depends" => isAcyclic(World, s, t)
  /\ stakes[sender][_edgeStakeKey(nextEdgeId)] >= config.minEdgeStake

\* C2: at most one Active or Disputed edge per (source, target, type); a
\* createEdge for a triple that has one is rejected with "Edge already
\* exists"; an edge of another type between the same two claims is accepted.
C2_OneLiveEdgePerTriple ==
  /\ \A e1, e2 \in CreatedEdges :
       (e1 # e2 /\ Live(e1) /\ Live(e2)) => Triple(e1) # Triple(e2)
  /\ \A e \in CreatedEdges, sender \in Principals, conf \in ValidConfidences :
       Live(e) =>
         createEdge(World, sender, edges[e].sourceQuantumId, edges[e].targetQuantumId,
                    edges[e].edgeType, EVIDENCE_CID, conf).err = "Edge already exists"
  /\ \A e \in CreatedEdges, sender \in Principals, ty \in EdgeTypes, conf \in ValidConfidences :
       LET s == edges[e].sourceQuantumId
           t == edges[e].targetQuantumId
       IN (Live(e) /\ LiveWith(s, t, ty) = {} /\ OtherPreconditions(sender, s, t, ty)) =>
            createEdge(World, sender, s, t, ty, EVIDENCE_CID, conf).err = "ok"

C2_Witness ==
  /\ last.op = "createEdge"
  /\ \E e1, e2 \in CreatedEdges :
       /\ e1 # e2 /\ Live(e1) /\ Live(e2)
       /\ edges[e1].sourceQuantumId = edges[e2].sourceQuantumId
       /\ edges[e1].targetQuantumId = edges[e2].targetQuantumId
       /\ edges[e1].edgeType # edges[e2].edgeType
  /\ \E e \in CreatedEdges :
       createEdge(World, "p2", edges[e].sourceQuantumId, edges[e].targetQuantumId,
                  edges[e].edgeType, EVIDENCE_CID, 9000).err = "Edge already exists"

\* The status changes an edge may make in one step, and the call that makes them.
StatusStep(e) ==
  \/ edges'[e].status = edges[e].status
  \/ /\ edges[e].status = "Active" /\ edges'[e].status = "Disputed"
     /\ last'.op = "disputeEdge"
  \/ /\ edges[e].status = "Active" /\ edges'[e].status = "Removed"
     /\ last'.op = "removeEdge"
  \/ /\ edges[e].status \in {"Active", "Disputed"} /\ edges'[e].status = "Invalidated"
     /\ last'.op = "invalidateEdge"

\* C3: an edge changes status only Active->Disputed (disputeEdge),
\* Active->Removed (removeEdge), Active->Invalidated or Disputed->Invalidated
\* (invalidateEdge); Removed and Invalidated are final, Disputed never
\* becomes Active again.
C3_StatusMachine ==
  [][\A e \in DOMAIN edges : StatusStep(e)]_vars

\* C7: the stake behind every Active edge is locked and holds at least the
\* edge's recorded stake amount, so its proposer cannot unstake it.
C7_ActiveEdgeStakeLocked ==
  \A e \in CreatedEdges :
    edges[e].status = "Active" =>
      LET p == edges[e].proposer
          k == _edgeStakeKey(e)
      IN /\ locked[p][k]
         /\ stakes[p][k] >= edges[e].stakeAmount
         /\ unstake(World, p, k).err = "Stake is locked"

C7_Witness ==
  \E e \in CreatedEdges :
    /\ edges[e].status = "Active"
    /\ edges[e].stakeAmount >= config.minEdgeStake
    /\ stakes[edges[e].proposer][_edgeStakeKey(e)] > edges[e].stakeAmount
    /\ unstake(World, edges[e].proposer, _edgeStakeKey(e)).err = "Stake is locked"

PositiveAmounts == {a \in Amounts : a > 0}

\* C8: on an unlocked record, stake(key, X) then unstake(key) pays back the
\* whole record (X, or the sum of the deposits) and leaves it at zero;
\* unstake is rejected with "No stake" on an empty record and with "Stake is
\* locked" on a locked one.
C8_StakeRoundTrip ==
  \A u \in Principals, i \in StakeIds :
    LET k == _edgeStakeKey(i)
        un == unstake(World, u, k)
    IN /\ locked[u][k] => un.err = "Stake is locked"
       /\ (~locked[u][k] /\ stakes[u][k] = 0) => un.err = "No stake"
       /\ (~locked[u][k] /\ stakes[u][k] > 0) =>
            /\ un.err = "ok"
            /\ un.w.stakes[u][k] = 0
            /\ un.w.balanceOf[u] = balanceOf[u] + stakes[u][k]
       /\ \A x \in PositiveAmounts :
            (~locked[u][k] /\ balanceOf[u] >= x) =>
              LET a == stake(World, u, k, x)
                  b == unstake(a.w, u, k)
              IN /\ a.err = "ok"
                 /\ a.w.stakes[u][k] = stakes[u][k] + x
                 /\ a.w.balanceOf[u] = balanceOf[u] - x
                 /\ b.err = "ok"
                 /\ b.w.stakes[u][k] = 0
                 /\ b.w.balanceOf[u] = balanceOf[u] + stakes[u][k]
                 /\ b.w.balanceOf[VaultAddr] = balanceOf[VaultAddr] - stakes[u][k]
       /\ \A x \in PositiveAmounts, y \in PositiveAmounts :
            (~locked[u][k] /\ stakes[u][k] = 0 /\ balanceOf[u] >= x + y) =>
              LET a == stake(World, u, k, x)
                  b == stake(a.w, u, k, y)
                  c == unstake(b.w, u, k)
              IN /\ c.err = "ok"
                 /\ c.w.balanceOf[u] = b.w.balanceOf[u] + x + y
                 /\ c.w.stakes[u][k] = 0

C8_Witness ==
  /\ last.op = "unstake"
  /\ stakes[last.sender][_edgeStakeKey(last.id)] = 0
  /\ ~locked[last.sender][_edgeStakeKey(last.id)]
  /\ balanceOf[last.sender] = InitialBalance
  /\ unstake(World, last.sender, _edgeStakeKey(last.id)).err = "No stake"

\* C10: once an edge is Removed or Invalidated its triple can be created
\* again, under a new edge id; while the edge is only Disputed the triple is
\* still refused with "Edge already exists".
C10_SlotFreedOnRemoveOrInvalidate ==
  \A e \in CreatedEdges, sender \in Principals, conf \in ValidConfidences :
    LET s == edges[e].sourceQuantumId
        t == edges[e].targetQuantumId
        ty == edges[e].edgeType
        r == createEdge(World, sender, s, t, ty, EVIDENCE_CID, conf)
    IN /\ (edges[e].status \in {"Removed", "Invalidated"} /\ LiveWith(s, t, ty) = {}
            /\ OtherPreconditions(sender, s, t, ty)) =>
             /\ r.err = "ok"
             /\ r.w.nextEdgeId = nextEdgeId + 1
             /\ nextEdgeId > e
             /\ r.w.edges[nextEdgeId].status = "Active"
             /\ r.w.edges[nextEdgeId].id = nextEdgeId
             /\ r.w.edges[e] = edges[e]
       /\ edges[e].status = "Disputed" => r.err = "Edge already exists"

C10_Witness ==
  /\ last.op = "createEdge"
  /\ \E e1, e2 \in CreatedEdges :
       /\ e1 < e2 /\ Triple(e1) = Triple(e2)
       /\ edges[e1].status \in {"Removed", "Invalidated"}
       /\ edges[e2].status = "Active"

\* ------------------------------------------------------------------------
\*  SpecDispute: one proposer, flaggers and challengers around a few edges
\* ------------------------------------------------------------------------
DisputeIds == 0..(DisputeEdges - 1)
DisputeAmounts == {10, 17}

DStake == StakeTx({"p1"}, DisputeIds, DisputeAmounts)
DCreateEdge ==
  /\ nextEdgeId < DisputeEdges
  /\ CreateEdgeTx({"p1"}, ExistingQuanta, {"Depends"}, {9000})
DFlagWeakLink == FlagWeakLinkTx({"p2", "adm"}, DisputeIds)
DTick == TickTx({MaxTime}, MaxTime)
DDisputeEdge == DisputeEdgeTx({"p1", "p2"}, DisputeIds)
NextDispute ==
  \/ DStake
  \/ DCreateEdge
  \/ DFlagWeakLink
  \/ DTick
  \/ DDisputeEdge

SpecDispute == Init /\ [][NextDispute]_vars

\* The step in which edge e is disputed.
Disputes(e) == edges[e].status = "Active" /\ edges'[e].status = "Disputed"
AfterSlash(S) == S - (S * DISPUTE_SLASH_BPS) \div BPS
ChallengerShare(S) == (AfterSlash(S) * CHALLENGER_SHARE_BPS) \div BPS
\* Flags of edge e that the dispute pays: unresolved and inside the window.
PaidFlags(e) ==
  {i \in 1..Len(weakLinkFlags[e]) :
     /\ ~weakLinkFlags[e][i].resolved
     /\ now <= weakLinkFlags[e][i].flaggedAt + config.weakLinkRewardWindow}

\* C4 as stated: a successful disputeEdge leaves the proposer's stake record
\* at S - floor(S * 1000 / 10000), 90% of what it held before the call.
C4_RecordKeepsNinetyPercent ==
  [][\A e \in DOMAIN edges :
       Disputes(e) =>
         LET p == edges[e].proposer
             k == _edgeStakeKey(e)
         IN stakes'[p][k] = stakes[p][k] - (stakes[p][k] * DISPUTE_SLASH_BPS) \div BPS]_vars

\* C4 amended: a successful disputeEdge leaves the proposer's stake record
\* at R - floor(R * 6000 / 10000) with R = S - floor(S * 1000 / 10000): the
\* slash and the challenger's share both leave the record, the slashed
\* tenth stays in the vault.
C4_RecordAfterSlashAndShare ==
  [][\A e \in DOMAIN edges :
       Disputes(e) =>
         LET p == edges[e].proposer
             k == _edgeStakeKey(e)
             S == stakes[p][k]
         IN /\ stakes'[p][k] = AfterSlash(S) - ChallengerShare(S)
            /\ stakes'[p][k] <= AfterSlash(S)
            /\ balanceOf'[VaultAddr] =
                 balanceOf[VaultAddr] - ChallengerShare(S)]_vars

C4_Witness ==
  /\ last.op = "disputeEdge"
  /\ edges[last.id].status = "Disputed"
  /\ edges[last.id].stakeAmount = 17
  /\ stakes[edges[last.id].proposer][_edgeStakeKey(last.id)] = 7

\* C5: a successful disputeEdge moves floor(R * 6000 / 10000) from the
\* proposer's record to the challenger's balance, R being the record after
\* the 10% slash, and mints the edge survival reward to the challenger on
\* top (and a bounty for each flag of the challenger that the dispute pays).
C5_ChallengerPayout ==
  [][\A e \in DOMAIN edges :
       Disputes(e) =>
         LET p == edges[e].proposer
             k == _edgeStakeKey(e)
             S == stakes[p][k]
             R == S - (S * 1000) \div 10000
             share == (R * 6000) \div 10000
             ch == last'.sender
             own == {i \in PaidFlags(e) : weakLinkFlags[e][i].flagger = ch}
         IN /\ last'.op = "disputeEdge" /\ last'.id = e /\ ch # p
            /\ stakes[p][k] - stakes'[p][k] = (S - R) + share
            /\ balanceOf'[VaultAddr] = balanceOf[VaultAddr] - share
            /\ balanceOf'[ch] = balanceOf[ch] + share + config.edgeSurvivalReward
                                  + config.weakLinkBounty * Cardinality(own)
            /\ totalMinted' = totalMinted + config.edgeSurvivalReward
                                  + config.weakLinkBounty * Cardinality(PaidFlags(e))]_vars

C5_Witness ==
  /\ last.op = "disputeEdge"
  /\ edges[last.id].status = "Disputed"
  /\ edges[last.id].stakeAmount = 27
  /\ balanceOf[last.sender] = 15 + config.edgeSurvivalReward + config.weakLinkBounty
  /\ \E i, j \in 1..Len(weakLinkFlags[last.id]) :
       /\ weakLinkFlags[last.id][i].rewarded
       /\ weakLinkFlags[last.id][i].flagger = last.sender
       /\ ~weakLinkFlags[last.id][j].rewarded

\* ------------------------------------------------------------------------
\*  SpecCfg: the administrator changes the minimum edge stake
\* ------------------------------------------------------------------------
ConfigChoices == {DefaultConfig, [DefaultConfig EXCEPT !.minEdgeStake = 0]}

CfgSetConfig == SetConfigTx({"adm", "p1"}, ConfigChoices)
CfgStake == StakeTx({"p1"}, StakeIds, {17})
CfgCreateEdge ==
  /\ nextEdgeId < MaxEdges
  /\ CreateEdgeTx({"p1", "p2"}, ExistingQuanta, {"Depends", "Supports"}, {9000})
CfgRemoveEdge == RemoveEdgeTx(Principals, EdgeIds)
CfgDisputeEdge == DisputeEdgeTx({"p2"}, EdgeIds)

NextCfg ==
  \/ CfgSetConfig
  \/ CfgStake
  \/ CfgCreateEdge
  \/ CfgRemoveEdge
  \/ CfgDisputeEdge

SpecCfg == Init /\ [][NextCfg]_vars

\* C9: removeEdge by the proposer of an Active edge succeeds: status
\* Removed, the whole stake record paid to the proposer, the record zero and
\* unlocked; by anyone else it is rejected with "Not proposer", and on an
\* edge that is not Active it is rejected, both without effect.
C9_ProposerRemovesActiveEdge ==
  \A e \in CreatedEdges, u \in Principals :
    LET p == edges[e].proposer
        k == _edgeStakeKey(e)
        r == removeEdge(World, u, e)
    IN /\ (u = p /\ edges[e].status = "Active") =>
            /\ r.err = "ok"
            /\ r.w.edges[e].status = "Removed"
            /\ r.w.balanceOf[p] = balanceOf[p] + stakes[p][k]
            /\ r.w.stakes[p][k] = 0
            /\ ~r.w.locked[p][k]
       /\ u # p => (r.err = "Not proposer" /\ r.w = World)
       /\ edges[e].status # "Active" => (r.err # "ok" /\ r.w = World)

\* ------------------------------------------------------------------------
\*  SpecDeep: one proposer builds the chain q0 -> q1 -> ... link by link
\* ------------------------------------------------------------------------
DeepQuantumIds == 0..(DeepQuanta - 1)
DeepEdgeIds == 0..(DeepQuanta + DeepSpare)
DeepBalance == DeepStake * (DeepQuanta + DeepSpare)

DeepInit ==
  InitWorld(DeepEdgeIds, DeepQuantumIds, DeepQuanta,
            [h \in Holders |-> IF h = "p1" THEN DeepBalance ELSE 0], DeepBalance)

\* Links s -> s+1 (mod DeepQuanta) that no Active Depends edge provides.
ActiveLink(s) ==
  \E e \in CreatedEdges :
    /\ edges[e].status = "Active" /\ edges[e].edgeType = "Depends"
    /\ edges[e].sourceQuantumId = s
    /\ edges[e].targetQuantumId = (s + 1) % DeepQuanta
MissingLinks == {s \in DeepQuantumIds : ~ActiveLink(s)}
NextLink == CHOOSE s \in MissingLinks : \A x \in MissingLinks : s <= x
Withdrawn == {e \in CreatedEdges : edges[e].status # "Active"}

DeepStakeTx ==
  /\ nextEdgeId < DeepQuanta + DeepSpare
  /\ stakes["p1"][_edgeStakeKey(nextEdgeId)] = 0
  /\ StakeTx({"p1"}, {nextEdgeId}, {DeepStake})
DeepCreateEdge ==
  /\ nextEdgeId < DeepQuanta + DeepSpare
  /\ MissingLinks # {}
  /\ Commit("createEdge", "p1", nextEdgeId,
            createEdge(World, "p1", NextLink, (NextLink + 1) % DeepQuanta,
                       "Depends", EVIDENCE_CID, 9000))
DeepRemoveEdge ==
  Cardinality(Withdrawn) < DeepSpare /\ RemoveEdgeTx({"p1"}, CreatedEdges)
DeepDisputeEdge ==
  Cardinality(Withdrawn) < DeepSpare /\ DisputeEdgeTx({"p2"}, CreatedEdges)
DeepInvalidateEdge ==
  Cardinality(Withdrawn) < DeepSpare /\ InvalidateEdgeTx({"adm"}, CreatedEdges)

NextDeep ==
  \/ DeepStakeTx
  \/ DeepCreateEdge
  \/ DeepRemoveEdge
  \/ DeepDisputeEdge
  \/ DeepInvalidateEdge

SpecDeep == DeepInit /\ [][NextDeep]_vars

\* Quanta that q reaches through one Active Depends edge, source to target.
Dependents(q) ==
  {edges[e].targetQuantumId :
     e \in {x \in CreatedEdges : /\ edges[x].status = "Active"
                                 /\ edges[x].edgeType = "Depends"
                                 /\ edges[x].sourceQuantumId = q}}
RECURSIVE ReachFrom(_)
ReachFrom(S) ==
  LET N == S \cup UNION {Dependents(q) : q \in S}
  IN IF N = S THEN S ELSE ReachFrom(N)

\* C1: the graph of the Active Depends edges has no cycle, of any length.
C1_ActiveDependsAcyclic ==
  \A q \in DOMAIN outgoingEdges : q \notin ReachFrom(Dependents(q))

\* ------------------------------------------------------------------------
\*  SpecSupply: the engine mints while the token is close to MAX_SUPPLY
\* ------------------------------------------------------------------------
SupplyInit ==
  InitWorld(EdgeIds, QuantumIds, NumQuanta,
            [h \in Holders |-> IF h \in Proposers THEN InitialBalance ELSE 0],
            MAX_SUPPLY - SupplyLeft)

BatchLists == {<<0, 1>>, <<1, 1>>, <<1, NumQuanta>>}

SStake == StakeTx({"p1"}, DisputeIds, {17})
SCreateEdge ==
  /\ nextEdgeId < DisputeEdges
  /\ CreateEdgeTx({"p1"}, ExistingQuanta, {"Depends", "Contradicts"}, {9000})
SFlagWeakLink == FlagWeakLinkTx({"p2"}, DisputeIds)
SDisputeEdge == DisputeEdgeTx({"p2"}, DisputeIds)
SInvalidateEdge == InvalidateEdgeTx({"adm"}, DisputeIds)
SPropagateScore == PropagateScoreTx({"adm"}, ExistingQuanta)
SBatchPropagateScores == BatchPropagateScoresTx({"adm"}, BatchLists)

NextSupply ==
  \/ SStake
  \/ SCreateEdge
  \/ SFlagWeakLink
  \/ SDisputeEdge
  \/ SInvalidateEdge
  \/ SPropagateScore
  \/ SBatchPropagateScores

SpecSupply == SupplyInit /\ [][NextSupply]_vars

\* A call that is rejected leaves the world as it was.
NoEffect(r) == r.err # "ok" => r.w = World
Callers == Principals \cup {DagAddr}
StakeKeys == {_edgeStakeKey(i) : i \in EdgeIds}
CallAmounts == {0, 1, 17, 35}

\* C6: every rejected call of the engine or of the vault leaves edge
\* records, nextEdgeId, adjacency lists, dedup slots, stakes, locks, flags,
\* propagated scores and balances as they were; a batchPropagateScores in
\* which one element fails stores no record.
C6_RejectedCallsChangeNothing ==
  /\ \A u \in Principals, s \in QuantumIds, t \in QuantumIds, ty \in EdgeTypes,
        conf \in Confidences :
       NoEffect(createEdge(World, u, s, t, ty, EVIDENCE_CID, conf))
  /\ \A u \in Principals, e \in EdgeIds :
       /\ NoEffect(removeEdge(World, u, e))
       /\ NoEffect(invalidateEdge(World, u, e))
       /\ NoEffect(disputeEdge(World, u, e))
       /\ NoEffect(flagWeakLink(World, u, e))
       /\ NoEffect(claimEdgeReward(World, u, e))
  /\ \A u \in Principals, q \in QuantumIds : NoEffect(propagateScore(World, u, q))
  /\ \A u \in Principals, l \in BatchLists :
       LET r == batchPropagateScores(World, u, l)
       IN NoEffect(r) /\ (r.err # "ok" => r.w.propagatedScores = propagatedScores)
  /\ \A u \in Principals, k \in StakeKeys, a \in CallAmounts :
       /\ NoEffect(stake(World, u, k, a))
       /\ NoEffect(unstake(World, u, k))
  /\ \A u \in Callers, k \in StakeKeys, a \in CallAmounts :
       /\ \A v \in Principals :
            /\ NoEffect(lockStake(World, u, v, k))
            /\ NoEffect(unlockStake(World, u, v, k))
            /\ NoEffect(slash(World, u, v, k, a))
            /\ NoEffect(refundStake(World, u, v, k))
            /\ NoEffect(transferStake(World, u, v, k, "p2", a))

\* A state in which a dispute runs out of supply after the slash and the
\* transfer, and a batch fails at its second element.
C6_Witness ==
  /\ last.op = "propagateScore"
  /\ propagatedScores[1].depth = 1
  /\ propagateScore(World, "adm", 1).err = "ok"
  /\ batchPropagateScores(World, "adm", <<1, 1>>).err = "Exceeds max supply"
  /\ \E e \in CreatedEdges :
       /\ edges[e].status = "Active"
       /\ slash(World, DagAddr, edges[e].proposer, _edgeStakeKey(e), DISPUTE_SLASH_BPS).err = "ok"
       /\ disputeEdge(World, "p2", e).err = "Exceeds max supply"

\* ------------------------------------------------------------------------
\*  SpecProp: scores are propagated over a small graph
\* ------------------------------------------------------------------------
FULL_SCORES == [correspondence |-> MAX_TRUTH_SCORE, coherence |-> MAX_TRUTH_SCORE,
                convergence |-> MAX_TRUTH_SCORE, pragmatism |-> MAX_TRUTH_SCORE]
PropQuantumIds == 0..PropQuanta
\* Basis-point settings past 10000, which setConfig stores as they come.
WideConfig == [DefaultConfig EXCEPT !.propagationFloor = 60000,
                                    !.propagationDamping = 60000,
                                    !.contradictionFloor = 20000]
PropConfigs == {DefaultConfig, WideConfig}
PropConfidences == {9000, 10000}

PropInit ==
  InitWorldWith(EdgeIds, PropQuantumIds, PropQuanta,
                [h \in Holders |-> IF h \in Proposers THEN InitialBalance ELSE 0],
                InitialBalance * Cardinality(Proposers),
                [q \in PropQuantumIds |-> IF q = 1 THEN FULL_SCORES ELSE TRUTH_SCORES])

\* The proposer stakes the minimum under the next edge's key and creates the
\* edge, two transactions one after the other.
stakeAndCreateEdge(w, signer, sourceId, targetId, edgeType, confidence) ==
  LET st == stake(w, signer, _edgeStakeKey(w.nextEdgeId), MIN_EDGE_STAKE)
  IN IF st.err # "ok" THEN st
     ELSE LET cr == createEdge(st.w, signer, sourceId, targetId, edgeType,
                               EVIDENCE_CID, confidence)
          IN IF cr.err # "ok" THEN [err |-> cr.err, w |-> st.w] ELSE cr

PStakeAndCreateEdge ==
  /\ nextEdgeId < MaxEdges
  /\ \E s \in ExistingQuanta, t \in ExistingQuanta, ty \in {"Depends", "Contradicts"},
        conf \in PropConfidences :
       LET r == stakeAndCreateEdge(World, "p1", s, t, ty, conf)
       IN s < t /\ r.err = "ok" /\ Commit("createEdge", "p1", nextEdgeId, r)
PRemoveEdge == RemoveEdgeTx({"p1"}, CreatedEdges)
PPropagateScore ==
  /\ totalMinted < InitialBalance * Cardinality(Proposers)
                     + MaxPropagations * DefaultConfig.propagationReward
  /\ PropagateScoreTx({"adm"}, ExistingQuanta)
PSetConfig == SetConfigTx({"adm"}, PropConfigs)

NextProp ==
  \/ PStakeAndCreateEdge
  \/ PRemoveEdge
  \/ PPropagateScore
  \/ PSetConfig

SpecProp == PropInit /\ [][NextProp]_vars

\* What the properties of propagation speak about, computed from the edge
\* records.
ActiveInto(c, ty) ==
  {e \in CreatedEdges : /\ edges[e].targetQuantumId = c
                        /\ edges[e].status = "Active"
                        /\ edges[e].edgeType = ty}
Intrinsic(c) ==
  (truthScores[c].correspondence * config.weightCorrespondence
   + truthScores[c].coherence * config.weightCoherence
   + truthScores[c].convergence * config.weightConvergence
   + truthScores[c].pragmatism * config.weightPragmatism) \div 10000
Effective(e) ==
  LET dep == propagatedScores[edges[e].sourceQuantumId].chainScore
  IN IF dep < edges[e].confidence THEN dep ELSE edges[e].confidence
Weakest(c) ==
  CHOOSE x \in {Effective(e) : e \in ActiveInto(c, "Depends")} :
    \A e \in ActiveInto(c, "Depends") : x <= Effective(e)
Multiplier(n) ==
  LET m == 10000 - n * config.contradictionPenalty
  IN IF m > config.contradictionFloor THEN m ELSE config.contradictionFloor
Stored(c) == propagateScore(World, "adm", c).w.propagatedScores[c]

Attenuated(c) ==
  (Intrinsic(c) * (config.propagationFloor
                   + (config.propagationDamping * Weakest(c)) \div 10000)) \div 10000

\* C12: propagateScore on a claim with at least one Active Depends edge and
\* no Active Contradicts edge stores the chain score
\* floor(intrinsic * (floor + floor(damping * w / 10000)) / 10000), w being
\* the least effective strength of the claim's Active Depends edges.
C12_AttenuationFormula ==
  \A c \in ExistingQuanta :
    (ActiveInto(c, "Depends") # {} /\ ActiveInto(c, "Contradicts") = {}) =>
      /\ propagateScore(World, "adm", c).err = "ok"
      /\ Stored(c).chainScore = Attenuated(c)

WeakestEdges(c) == {e \in ActiveInto(c, "Depends") : Effective(e) = Weakest(c)}

\* C13: propagateScore on a claim with at least one Active Depends edge
\* stores as weakest-link edge id one of the claim's Active Depends edges of
\* least effective strength, and that least strength as weakest-link score.
C13_WeakestLinkIsAMinimalEdge ==
  \A c \in ExistingQuanta :
    ActiveInto(c, "Depends") # {} =>
      /\ propagateScore(World, "adm", c).err = "ok"
      /\ Stored(c).weakestLinkEdgeId \in WeakestEdges(c)
      /\ Stored(c).weakestLinkScore = Weakest(c)

\* The chain score propagateScore computes before the contradiction penalty.
Unpenalised(c) ==
  (IF ActiveInto(c, "Depends") = {} THEN Intrinsic(c) ELSE Attenuated(c)) % UINT16_MOD

\* C14: propagateScore stores the otherwise-computed chain score times
\* max(contradictionFloor, 10000 - n * contradictionPenalty) / 10000, floor,
\* for n >= 1 Active Contradicts edges on the claim; under the defaults the
\* multiplier is 8500 for one contradiction and never below 4000.
C14_ContradictionMultiplier ==
  /\ \A c \in ExistingQuanta :
       LET n == Cardinality(ActiveInto(c, "Contradicts"))
       IN n > 0 =>
            /\ propagateScore(World, "adm", c).err = "ok"
            /\ Stored(c).chainScore = (Unpenalised(c) * Multiplier(n)) \div 10000
  /\ config = DefaultConfig =>
       /\ Multiplier(1) = 8500
       /\ \A n \in 0..UINT8_MAX : Multiplier(n) >= 4000

\* ------------------------------------------------------------------------
\*  SpecRepeat: propagation repeated while time passes
\* ------------------------------------------------------------------------
PTick == TickTx({MaxTime}, MaxTime)

NextRepeat ==
  \/ PStakeAndCreateEdge
  \/ PPropagateScore
  \/ PTick

SpecRepeat == PropInit /\ [][NextRepeat]_vars

\* This step is a successful propagateScore(c) and so was the last
\* transaction that succeeded before it.
PropagatesAgain(c) ==
  /\ last.op = "propagateScore" /\ last.id = c
  /\ last' = last
  /\ totalMinted' = totalMinted + config.propagationReward

\* C15 as stated: a propagateScore(c) that follows a propagateScore(c) with
\* nothing changed in between stores an identical record for c.
C15_RepeatStoresIdenticalRecord ==
  [][\A c \in ExistingQuanta :
       PropagatesAgain(c) => propagatedScores'[c] = propagatedScores[c]]_vars

\* C15 amended: a propagateScore(c) that follows a propagateScore(c) with
\* nothing changed in between stores the same chain score, weakest-link
\* score, weakest-link edge id and depth for c; the record's last-update
\* time is the time of the later call.
C15_RepeatStoresSameScores ==
  [][\A c \in ExistingQuanta :
       PropagatesAgain(c) =>
         propagatedScores'[c] = [propagatedScores[c] EXCEPT !.lastUpdated = now]]_vars

C15_Witness ==
  /\ last.op = "propagateScore"
  /\ ActiveInto(last.id, "Depends") # {}
  /\ totalMinted = InitialBalance * Cardinality(Proposers)
                     + 2 * DefaultConfig.propagationReward
  /\ \A q \in ExistingQuanta \ {last.id} : propagatedScores[q] = EmptyScore
  /\ propagatedScores[last.id].lastUpdated = MaxTime
  /\ propagatedScores[last.id].depth = 1

\* ------------------------------------------------------------------------
\*  SpecFlags: flags placed around the end of the reward window
\* ------------------------------------------------------------------------
FStakeAndCreateEdge ==
  /\ nextEdgeId < DisputeEdges
  /\ \E s \in ExistingQuanta, t \in ExistingQuanta :
       LET r == stakeAndCreateEdge(World, "p1", s, t, "Depends", 9000)
       IN r.err = "ok" /\ Commit("createEdge", "p1", nextEdgeId, r)
FFlagWeakLink == FlagWeakLinkTx({"p2", "adm"}, DisputeIds)
\* Time moves to 1, and from there or from 0 by the length of the window.
FTick ==
  \/ TickTx({1}, 1)
  \/ TickTx({DefaultConfig.weakLinkRewardWindow}, MaxTime)
FDisputeEdge == DisputeEdgeTx({"p2"}, DisputeIds)
FInvalidateEdge == InvalidateEdgeTx({"adm"}, DisputeIds)

NextFlags ==
  \/ FStakeAndCreateEdge
  \/ FFlagWeakLink
  \/ FTick
  \/ FDisputeEdge
  \/ FInvalidateEdge

SpecFlags == Init /\ [][NextFlags]_vars

\* This step disputes or invalidates edge e.
Resolves(e) ==
  /\ edges'[e].status # edges[e].status
  /\ edges'[e].status \in {"Disputed", "Invalidated"}
InWindow(f) == now <= f.flaggedAt + config.weakLinkRewardWindow
\* What a dispute pays its challenger apart from flag bounties.
ChallengerPayout(e, u) ==
  IF edges'[e].status = "Disputed" /\ last'.sender = u
    THEN ChallengerShare(stakes[edges[e].proposer][_edgeStakeKey(e)])
           + config.edgeSurvivalReward
    ELSE 0

\* C16: when an edge is disputed or invalidated, each of its unresolved
\* flags becomes resolved, and is marked rewarded with the bounty paid to
\* its flagger exactly when the time of the call is at most the flag's time
\* plus the reward window.
C16_FlagRewardedIffInsideWindow ==
  [][\A e \in DisputeIds :
       Resolves(e) =>
         LET flags == weakLinkFlags[e]
             open == {i \in 1..Len(flags) : ~flags[i].resolved}
             paid(u) == {i \in open : flags[i].flagger = u /\ InWindow(flags[i])}
         IN /\ Len(weakLinkFlags'[e]) = Len(flags)
            /\ \A i \in open :
                 /\ weakLinkFlags'[e][i].resolved
                 /\ weakLinkFlags'[e][i].rewarded <=> InWindow(flags[i])
            /\ \A i \in (1..Len(flags)) \ open : weakLinkFlags'[e][i] = flags[i]
            /\ \A u \in Principals :
                 balanceOf'[u] = balanceOf[u] + ChallengerPayout(e, u)
                                   + config.weakLinkBounty * Cardinality(paid(u))]_vars

C16_Witness ==
  /\ last.op \in {"disputeEdge", "invalidateEdge"}
  /\ now = 1 + DefaultConfig.weakLinkRewardWindow
  /\ Len(weakLinkFlags[last.id]) = 2
  /\ weakLinkFlags[last.id][1] =
       [flagger |-> "p2", flaggedAt |-> 0, resolved |-> TRUE, rewarded |-> FALSE]
  /\ weakLinkFlags[last.id][2] =
       [flagger |-> "adm", flaggedAt |-> 1, resolved |-> TRUE, rewarded |-> TRUE]
  /\ balanceOf["adm"] = DefaultConfig.weakLinkBounty

\* ------------------------------------------------------------------------
\*  SpecReward: edges reach maturity and their reward is claimed
\* ------------------------------------------------------------------------
RStakeAndCreateEdge ==
  /\ nextEdgeId < MaxEdges
  /\ \E s \in ExistingQuanta, t \in ExistingQuanta :
       LET r == stakeAndCreateEdge(World, "p1", s, t, "Depends", 9000)
       IN r.err = "ok" /\ Commit("createEdge", "p1", nextEdgeId, r)
\* Time moves to one unit before the maturity of an edge created at 0, and
\* from there to its maturity.
RTick ==
  \/ TickTx({DefaultConfig.edgeMaturityPeriod - 1}, DefaultConfig.edgeMaturityPeriod - 1)
  \/ /\ now = DefaultConfig.edgeMaturityPeriod - 1
     /\ TickTx({1}, DefaultConfig.edgeMaturityPeriod)
RClaimEdgeReward == ClaimEdgeRewardTx({"p1", "p2"}, EdgeIds)
RRemoveEdge == RemoveEdgeTx({"p1"}, EdgeIds)
RDisputeEdge == DisputeEdgeTx({"p2"}, EdgeIds)
RInvalidateEdge == InvalidateEdgeTx({"adm"}, EdgeIds)

NextReward ==
  \/ RStakeAndCreateEdge
  \/ RTick
  \/ RClaimEdgeReward
  \/ RRemoveEdge
  \/ RDisputeEdge
  \/ RInvalidateEdge

SpecReward == Init /\ [][NextReward]_vars

Mature(e) == now >= edges[e].createdAt + config.edgeMaturityPeriod
\* What the claim call answers in each state.
ClaimAnswers ==
  \A e \in EdgeIds, u \in Principals :
    LET r == claimEdgeReward(World, u, e)
    IN /\ edgeRewardClaimed[e] => r.err # "ok"
       /\ (edges[e].status # "Active" \/ ~Mature(e) \/ u # edges[e].proposer)
            => r.err # "ok"
       /\ (/\ e \in CreatedEdges /\ u = edges[e].proposer /\ edges[e].status = "Active"
           /\ now = edges[e].createdAt + config.edgeMaturityPeriod
           /\ ~edgeRewardClaimed[e])
            => r.err = "ok"
       /\ r.err # "ok" => r.w = World
\* What a step does to the claimed marks and the supply.
ClaimSteps ==
  \A e \in EdgeIds :
    /\ edgeRewardClaimed[e] => edgeRewardClaimed'[e]
    /\ (~edgeRewardClaimed[e] /\ edgeRewardClaimed'[e]) =>
         LET p == edges[e].proposer
         IN /\ last'.op = "claimEdgeReward" /\ last'.id = e /\ last'.sender = p
            /\ e \in CreatedEdges /\ edges[e].status = "Active" /\ Mature(e)
            /\ balanceOf' = [balanceOf EXCEPT ![p] = @ + config.edgeSurvivalReward]
            /\ totalMinted' = totalMinted + config.edgeSurvivalReward
    /\ (last'.op = "claimEdgeReward" /\ last'.id = e /\ totalMinted' # totalMinted)
         => ~edgeRewardClaimed[e] /\ edgeRewardClaimed'[e]

\* C17: the maturity reward of an edge is minted at most once, to the
\* edge's proposer, while the edge is Active and from the creation time
\* plus the maturity period on (that instant included); once claimed, every
\* further claim on the edge is rejected.
C17_MaturityRewardOnce == []ClaimAnswers /\ [][ClaimSteps]_vars

C17_Witness ==
  /\ last.op = "claimEdgeReward"
  /\ edgeRewardClaimed[last.id]
  /\ now = edges[last.id].createdAt + config.edgeMaturityPeriod
  /\ claimEdgeReward(World, edges[last.id].proposer, last.id).err = "Already claimed"
  /\ balanceOf["p1"] = InitialBalance - MIN_EDGE_STAKE + config.edgeSurvivalReward

\* ------------------------------------------------------------------------
\*  SpecVault: the vault called directly, its authorised set changing
\* ------------------------------------------------------------------------
VaultKey == _edgeStakeKey(0)
VaultCallers == Principals \cup {DagAddr}
DirectCallers == {"p2", "adm"}
SlashBps == {0, BPS}
TransferAmounts == {17}

VStake == StakeTx({"p1"}, {0}, {17})
VUnstake == UnstakeTx({"p1"}, {0})
VSetAuthorized ==
  \E sender \in DirectCallers, account \in {"p2", DagAddr}, status \in BOOLEAN :
    Commit("setAuthorized", sender, 0, setAuthorized(World, sender, account, status))
VTransferOwnership ==
  \E sender \in DirectCallers, newOwner \in {"p2", ZeroAddr} :
    Commit("transferOwnership", sender, 0,
           TruthStaking_transferOwnership(World, sender, newOwner))
VLockStake ==
  \E sender \in DirectCallers :
    Commit("lockStake", sender, 0, lockStake(World, sender, "p1", VaultKey))
VUnlockStake ==
  \E sender \in DirectCallers :
    Commit("unlockStake", sender, 0, unlockStake(World, sender, "p1", VaultKey))
VSlash ==
  \E sender \in DirectCallers, bps \in SlashBps :
    Commit("slash", sender, 0, slash(World, sender, "p1", VaultKey, bps))
VTransferStake ==
  \E sender \in DirectCallers, amount \in TransferAmounts :
    Commit("transferStake", sender, 0,
           transferStake(World, sender, "p1", VaultKey, "p2", amount))
VRefundStake ==
  \E sender \in DirectCallers :
    Commit("refundStake", sender, 0, refundStake(World, sender, "p1", VaultKey))
VCreateEdge ==
  /\ nextEdgeId < DisputeEdges
  /\ CreateEdgeTx({"p1"}, ExistingQuanta, {"Depends"}, {9000})

NextVault ==
  \/ VStake
  \/ VUnstake
  \/ VSetAuthorized
  \/ VTransferOwnership
  \/ VLockStake
  \/ VUnlockStake
  \/ VSlash
  \/ VTransferStake
  \/ VRefundStake
  \/ VCreateEdge

SpecVault == Init /\ [][NextVault]_vars

Rejected(r, reason) == r.err = reason /\ r.w = World
\* What the vault answers a caller outside the authorised set, and what
\* lock and unlock answer any caller.
VaultAnswers ==
  \A u \in VaultCallers, user \in Principals, key \in {_edgeStakeKey(i) : i \in StakeIds} :
    /\ u \notin authorized =>
         /\ Rejected(lockStake(World, u, user, key), "Not authorized")
         /\ Rejected(unlockStake(World, u, user, key), "Not authorized")
         /\ \A bps \in SlashBps :
              Rejected(slash(World, u, user, key, bps), "Not authorized")
         /\ \A to \in Principals, amount \in {0} \cup TransferAmounts :
              Rejected(transferStake(World, u, user, key, to, amount), "Not authorized")
         /\ Rejected(refundStake(World, u, user, key), "Not authorized")
    /\ lockStake(World, u, user, key).w.stakes = stakes
    /\ unlockStake(World, u, user, key).w.stakes = stakes
    /\ \A account \in VaultCallers, status \in BOOLEAN :
         u # stakingOwner =>
           Rejected(setAuthorized(World, u, account, status), "Not owner")
\* Which steps change the authorised set and the stake amounts.
VaultSteps ==
  /\ authorized' # authorized =>
       last'.op = "setAuthorized" /\ last'.sender = stakingOwner
  /\ stakes' # stakes => last'.op \notin {"lockStake", "unlockStake", "setAuthorized"}

\* C18: lock, unlock, slash, transferStake and refundStake by a caller
\* outside the authorised set are rejected with "Not authorized" and change
\* nothing; only the vault owner changes the authorised set; lock and unlock
\* never change a stake amount.
C18_VaultAuthorisation == []VaultAnswers /\ [][VaultSteps]_vars

C18_Witness ==
  /\ last.op = "lockStake" /\ last.sender = "p2"
  /\ authorized = {"p2"}
  /\ stakingOwner = "p2"
  /\ locked["p1"][VaultKey]
  /\ stakes["p1"][VaultKey] = 17
  /\ refundStake(World, DagAddr, "p1", VaultKey).err = "Not authorized"

\* What disputeEdge answers in each state.
DisputeAnswers ==
  \A u \in Principals, e \in EdgeIds :
    LET r == disputeEdge(World, u, e)
    IN /\ r.err = "ok" =>
            /\ e \in CreatedEdges
            /\ edges[e].status = "Active"
            /\ u # edges[e].proposer
       /\ r.err # "ok" => r.w = World
       /\ (e \in CreatedEdges /\ edges[e].status # "Active") => r.err = "Edge not active"
       /\ (edges[e].status = "Active" /\ u = edges[e].proposer)
            => r.err = "Cannot dispute own edge"
\* A created edge that left Active never returns to it, and the proposer's
\* record under its key goes down only in the dispute, in the removal, or
\* after the removal.
DisputeSteps ==
  \A e \in CreatedEdges :
    LET p == edges[e].proposer
        k == _edgeStakeKey(e)
    IN /\ edges[e].status # "Active" => edges'[e].status # "Active"
       /\ Disputes(e) => last'.op = "disputeEdge" /\ last'.sender # p
       /\ stakes'[p][k] < stakes[p][k] =>
            \/ Disputes(e)
            \/ edges[e].status = "Active" /\ edges'[e].status = "Removed"
            \/ edges[e].status = "Removed"

\* C19: disputeEdge succeeds only on an Active edge and only for a caller
\* other than the edge's proposer; an edge that was disputed is never Active
\* again, so each edge is disputed, and its proposer's stake slashed, at
\* most once.
C19_DisputedAtMostOnce == []DisputeAnswers /\ [][DisputeSteps]_vars

C19_Witness ==
  /\ last.op = "disputeEdge"
  /\ edges[last.id].status = "Disputed"
  /\ stakes[edges[last.id].proposer][_edgeStakeKey(last.id)] < edges[last.id].stakeAmount
  /\ \A u \in Principals : disputeEdge(World, u, last.id).err = "Edge not active"

\* C20: invalidateEdge succeeds only for the administrator and only on an
\* edge that has been created and is Active or Disputed; every other call
\* is rejected and changes nothing.
C20_InvalidateOnlyCreatedEdges ==
  \A u \in Principals, e \in EdgeIds :
    LET r == invalidateEdge(World, u, e)
    IN /\ r.err = "ok" =>
            /\ u = owner
            /\ e \in CreatedEdges
            /\ edges[e].status \in {"Active", "Disputed"}
       /\ r.err # "ok" => r.w = World

\* C21: flagWeakLink succeeds only on an edge that has been created and is
\* Active, and then appends one unresolved, unrewarded flag with the caller
\* and the current time and changes nothing else; every other call is
\* rejected and records no flag.
C21_FlagOnlyCreatedActiveEdges ==
  \A u \in Principals, e \in EdgeIds :
    LET r == flagWeakLink(World, u, e)
        flag == [flagger |-> u, flaggedAt |-> now, resolved |-> FALSE, rewarded |-> FALSE]
    IN /\ r.err = "ok" =>
            /\ e \in CreatedEdges
            /\ edges[e].status = "Active"
            /\ r.w = [World EXCEPT !.weakLinkFlags[e] = Append(@, flag)]
       /\ r.err # "ok" => r.w = World

\* ------------------------------------------------------------------------
\*  SpecCreate: two funded stakers compete for edge ids
\* ------------------------------------------------------------------------
Stakers == {"p1", "p2"}
CreateInit ==
  InitWorld(EdgeIds, QuantumIds, NumQuanta,
            [h \in Holders |-> IF h = "p2" THEN StakerBalance
                                ELSE IF h = "p1" THEN MIN_EDGE_STAKE ELSE 0],
            StakerBalance + MIN_EDGE_STAKE)

CStake == StakeTx(Stakers, StakeIds, {MIN_EDGE_STAKE})
CUnstake == UnstakeTx(Stakers, StakeIds)
CCreateEdge ==
  /\ nextEdgeId < MaxEdges
  /\ CreateEdgeTx(Stakers, ExistingQuanta, {"Depends", "Supports"}, {9000})
CRemoveEdge == RemoveEdgeTx(Stakers, EdgeIds)
CDisputeEdge == DisputeEdgeTx({"adm"}, EdgeIds)
CSetAuthorized ==
  \E status \in BOOLEAN :
    Commit("setAuthorized", "adm", 0, setAuthorized(World, "adm", DagAddr, status))

NextCreate ==
  \/ CStake
  \/ CUnstake
  \/ CCreateEdge
  \/ CRemoveEdge
  \/ CDisputeEdge
  \/ CSetAuthorized

SpecCreate == CreateInit /\ [][NextCreate]_vars

\* The preconditions of createEdge in the order the call checks them, each
\* with the error that reports it.
CreatePreconditions(u, s, t, ty, conf) ==
  << <<s # t, "Self-reference">>,
     <<conf <= 10000, "Confidence out of range">>,
     <<s \in ExistingQuanta, "Source quantum does not exist">>,
     <<t \in ExistingQuanta, "Target quantum does not exist">>,
     <<LiveWith(s, t, ty) = {}, "Edge already exists">>,
     <<ty = "Depends" => isAcyclic(World, s, t), "Would create cycle">>,
     <<stakes[u][_edgeStakeKey(nextEdgeId)] >= config.minEdgeStake, "Insufficient stake">> >>
AllHold(pre) == \A i \in 1..Len(pre) : pre[i][1]
FirstError(pre) ==
  pre[CHOOSE i \in 1..Len(pre) : ~pre[i][1] /\ \A j \in 1..(i - 1) : pre[j][1]][2]

\* C22 as stated: createEdge succeeds exactly when its six preconditions
\* hold, and a rejected call reports the error of a violated precondition.
C22_CreateIffPreconditions ==
  \A u \in Principals, s \in QuantumIds, t \in QuantumIds, ty \in EdgeTypes,
     conf \in Confidences :
    LET pre == CreatePreconditions(u, s, t, ty, conf)
        r == createEdge(World, u, s, t, ty, EVIDENCE_CID, conf)
    IN /\ r.err = "ok" <=> AllHold(pre)
       /\ ~AllHold(pre) => r.err = FirstError(pre)

\* C22 amended: createEdge succeeds exactly when its six preconditions hold
\* and the engine is authorised on the vault; a call that violates a
\* precondition reports the error of the first one violated, and a call
\* that violates none while the engine is not authorised reports
\* "Not authorized".  A rejected call changes nothing.
C22_CreateIffPreconditionsAndAuthorised ==
  \A u \in Principals, s \in QuantumIds, t \in QuantumIds, ty \in EdgeTypes,
     conf \in Confidences :
    LET pre == CreatePreconditions(u, s, t, ty, conf)
        r == createEdge(World, u, s, t, ty, EVIDENCE_CID, conf)
    IN /\ r.err = "ok" <=> (AllHold(pre) /\ DagAddr \in authorized)
       /\ ~AllHold(pre) => r.err = FirstError(pre)
       /\ (AllHold(pre) /\ DagAddr \notin authorized) => r.err = "Not authorized"
       /\ r.err # "ok" => r.w = World

C22_Witness ==
  /\ DagAddr \notin authorized
  /\ nextEdgeId = 1 /\ edges[0].status = "Active"
  /\ AllHold(CreatePreconditions("p2", 0, 1, "Supports", 9000))
  /\ createEdge(World, "p2", 0, 1, "Supports", EVIDENCE_CID, 9000).err = "Not authorized"
  /\ createEdge(World, "p2", 0, 1, "Depends", EVIDENCE_CID, 9000).err = "Edge already exists"
  /\ createEdge(World, "p2", 1, 0, "Depends", EVIDENCE_CID, 9000).err = "Would create cycle"
  /\ createEdge(World, "p1", 1, 0, "Supports", EVIDENCE_CID, 9000).err = "Insufficient stake"

\* ------------------------------------------------------------------------
\*  SpecAdmin: configuration and ownership changes
\* ------------------------------------------------------------------------
\* Weight arguments: sums of 10000, 9999, 10001, 0 and, in uint16, 4 * 65535.
WeightChoices ==
  { <<3000, 2500, 2500, 2000>>, <<2500, 2500, 2500, 2500>>, <<10000, 0, 0, 0>>,
    <<3000, 2500, 2500, 1999>>, <<3000, 2500, 2500, 2001>>, <<0, 0, 0, 0>>,
    <<UINT16_MOD - 1, UINT16_MOD - 1, UINT16_MOD - 1, UINT16_MOD - 1>> }
AdminConfigs == PropConfigs \cup ConfigChoices

ASetWeights ==
  \E sender \in Principals, x \in WeightChoices :
    Commit("setWeights", sender, 0, setWeights(World, sender, x[1], x[2], x[3], x[4]))
ASetConfig == SetConfigTx(Principals, AdminConfigs)
ATransferOwnership ==
  \E sender \in Principals, newOwner \in {"p2", "adm", ZeroAddr} :
    Commit("transferOwnership", sender, 0, transferOwnership(World, sender, newOwner))
APropagateScore ==
  /\ totalMinted < InitialBalance * Cardinality(Proposers) + DefaultConfig.propagationReward
  /\ PropagateScoreTx({"p1"}, ExistingQuanta)

NextAdmin ==
  \/ ASetWeights
  \/ ASetConfig
  \/ ATransferOwnership
  \/ APropagateScore

SpecAdmin == Init /\ [][NextAdmin]_vars

WeightSum(c) ==
  c.weightCorrespondence + c.weightCoherence + c.weightConvergence + c.weightPragmatism
\* What setWeights and setConfig answer in each state.
AdminAnswers ==
  /\ WeightSum(config) = 10000
  /\ \A u \in Principals, x \in WeightChoices :
       LET r == setWeights(World, u, x[1], x[2], x[3], x[4])
       IN /\ x[1] + x[2] + x[3] + x[4] # 10000 => r.err # "ok"
          /\ u # owner => r.err = "Not owner"
          /\ (u = owner /\ x[1] + x[2] + x[3] + x[4] = 10000) => r.err = "ok"
          /\ r.err # "ok" => r.w = World
  /\ \A u \in Principals, c \in AdminConfigs :
       LET r == setConfig(World, u, c)
       IN /\ u # owner => Rejected(r, "Not owner")
          /\ WeightSum(r.w.config) = 10000
\* The configuration changes only in the administrator's own calls.
AdminSteps ==
  config' # config =>
    /\ last'.op \in {"setWeights", "setConfig"}
    /\ last'.sender = owner

\* C23: the four weights sum to 10000 in every reachable state; setWeights
\* with another sum is rejected, setWeights and setConfig by a caller other
\* than the administrator are rejected, and a rejected call leaves the
\* configuration unchanged.
C23_WeightsSumToTenThousand == []AdminAnswers /\ [][AdminSteps]_vars

C23_Witness ==
  /\ last.op = "setWeights" /\ last.sender = "p2"
  /\ owner = "p2"
  /\ config.weightCorrespondence = 10000
  /\ config.propagationFloor = WideConfig.propagationFloor
  /\ setWeights(World, "p2", 3000, 2500, 2500, 2001).err = "Weights must sum to 10000"
  /\ setConfig(World, "adm", DefaultConfig).err = "Not owner"

\* C24: every stored chain score and weakest-link score lies in [0, 10000],
\* whatever configuration the administrator has set.
C24_StoredScoresInRange ==
  \A q \in DOMAIN propagatedScores :
    /\ propagatedScores[q].chainScore \in 0..MAX_TRUTH_SCORE
    /\ propagatedScores[q].weakestLinkScore \in 0..MAX_TRUTH_SCORE

\* The claims that q depends on through one Active Depends edge.
Dependencies(q) ==
  {edges[e].sourceQuantumId :
     e \in {x \in CreatedEdges : /\ edges[x].status = "Active"
                                 /\ edges[x].edgeType = "Depends"
                                 /\ edges[x].targetQuantumId = q}}
DependencyMap == [q \in ExistingQuanta |-> Dependencies(q)]
\* The walk from claim q along the dependencies dep finds goal in at most n
\* steps.
RECURSIVE WalkFinds(_, _, _, _)
WalkFinds(dep, q, goal, n) ==
  /\ n > 0
  /\ \E d \in dep[q] : d = goal \/ WalkFinds(dep, d, goal, n - 1)
\* The claims at one end of every probed pair: the chain of SpecDeep starts
\* at claim 0, so the pairs (s, 0) and (0, t) cover every distance in both
\* directions.
ProbedQuanta == {0}
ProbedPairs ==
  {p \in ExistingQuanta \X ExistingQuanta :
     p[1] \in ProbedQuanta \/ p[2] \in ProbedQuanta}
\* createEdge gets as far as the cycle check.
ReachesCycleCheck(s, t) ==
  /\ s # t /\ s \in ExistingQuanta /\ t \in ExistingQuanta
  /\ LiveWith(s, t, "Depends") = {}
CreateDepends(s, t) == createEdge(World, "p1", s, t, "Depends", EVIDENCE_CID, 9000)

\* C25 as stated: the cycle check for a Depends edge source -> target walks
\* from the target along dependencies and rejects the edge with "Would
\* create cycle" exactly when it finds the source within the depth bound.
C25_WalkFromTargetFindsSource ==
  LET dep == DependencyMap
  IN \A p \in ProbedPairs :
       ReachesCycleCheck(p[1], p[2]) =>
         (CreateDepends(p[1], p[2]).err = "Would create cycle"
            <=> WalkFinds(dep, p[2], p[1], MAX_CYCLE_CHECK_DEPTH))

\* C25 amended: the cycle check for a Depends edge source -> target walks
\* from the source along dependencies and rejects the edge with "Would
\* create cycle" exactly when it finds the target within the depth bound.
C25_WalkFromSourceFindsTarget ==
  LET dep == DependencyMap
  IN \A p \in ProbedPairs :
       ReachesCycleCheck(p[1], p[2]) =>
         (CreateDepends(p[1], p[2]).err = "Would create cycle"
            <=> WalkFinds(dep, p[1], p[2], MAX_CYCLE_CHECK_DEPTH))

C25_Witness ==
  /\ last.op = "createEdge"
  /\ Dependencies(2) = {1} /\ Dependencies(1) = {0} /\ Dependencies(0) = {}
  /\ CreateDepends(2, 0).err = "Would create cycle"
  /\ CreateDepends(0, 2).err # "Would create cycle"
  /\ WalkFinds(DependencyMap, 2, 0, MAX_CYCLE_CHECK_DEPTH)


\* The claims reached from the claims of S through chains of 1..n
\* dependencies.
RECURSIVE DependsWithin(_, _, _)
DependsWithin(dep, S, n) ==
  IF n = 0 \/ S = {} THEN {}
  ELSE LET direct == UNION {dep[q] : q \in S}
       IN direct \cup DependsWithin(dep, direct, n - 1)
EnoughStake(u) == stakes[u][_edgeStakeKey(nextEdgeId)] >= config.minEdgeStake

\* C26: a Depends edge source -> target is rejected with "Would create
\* cycle" exactly when the source depends on the target through a chain of
\* at most 20 Active Depends edges, and is accepted otherwise (the stake
\* being there); Supports and Contradicts edges never get that answer; and
\* the view isAcyclic gives the answer of createEdge's cycle check.
C26_CycleIffChainWithinBound ==
  LET dep == DependencyMap
  IN \A p \in ProbedPairs :
       LET s == p[1]
           t == p[2]
           r == CreateDepends(s, t)
           near == t \in DependsWithin(dep, {s}, MAX_CYCLE_CHECK_DEPTH)
       IN /\ \A ty \in {"Supports", "Contradicts"} :
               createEdge(World, "p1", s, t, ty, EVIDENCE_CID, 9000).err
                 # "Would create cycle"
          /\ ReachesCycleCheck(s, t) =>
               /\ r.err = "Would create cycle" <=> near
               /\ (~near /\ EnoughStake("p1")) => r.err = "ok"
               /\ isAcyclic(World, s, t) <=> r.err # "Would create cycle"

\* The chain 0 -> 1 -> ... -> 21 stands: claim 20 depends on claim 0 through
\* exactly 20 edges and is refused, claim 21 through 21 edges and is not.
C26_Witness ==
  LET dep == DependencyMap
  IN /\ last.op = "stake"
     /\ EnoughStake("p1")
     /\ 0 \in DependsWithin(dep, {20}, MAX_CYCLE_CHECK_DEPTH)
     /\ 0 \notin DependsWithin(dep, {20}, MAX_CYCLE_CHECK_DEPTH - 1)
     /\ CreateDepends(20, 0).err = "Would create cycle"
     /\ 0 \in DependsWithin(dep, {21}, MAX_CYCLE_CHECK_DEPTH + 1)
     /\ 0 \notin DependsWithin(dep, {21}, MAX_CYCLE_CHECK_DEPTH)
     /\ CreateDepends(21, 0).err = "ok"
     /\ ~isAcyclic(World, 20, 0) /\ isAcyclic(World, 21, 0)

\* Created edges that a dispute or the owner has withdrawn.
Condemned == {e \in CreatedEdges : edges[e].status \in {"Disputed", "Invalidated"}}
EngineOnly == authorized = {DagAddr}

\* C27: with the engine as the vault's only authorised caller, the stake
\* record of the proposer of a Disputed or Invalidated edge, under that
\* edge's key, is locked and every unstake of it is refused; and no step
\* brings the edge back, unlocks the record or takes anything out of it.
C27_CondemnedStakeStaysLocked ==
  /\ [](EngineOnly =>
          \A e \in Condemned :
            /\ locked[edges[e].proposer][_edgeStakeKey(e)]
            /\ unstake(World, edges[e].proposer, _edgeStakeKey(e)).err
                 = "Stake is locked")
  /\ [][EngineOnly =>
          \A e \in Condemned :
            LET p == edges[e].proposer
                k == _edgeStakeKey(e)
            IN /\ edges'[e].status \in {"Disputed", "Invalidated"}
               /\ edges'[e].proposer = p
               /\ locked'[p][k]
               /\ stakes'[p][k] >= stakes[p][k]]_vars

\* The proposer of a disputed edge has staked again under the edge's key,
\* the owner has then invalidated the edge, and the record is still locked.
C27_Witness ==
  \E e \in Condemned :
    LET p == edges[e].proposer
        k == _edgeStakeKey(e)
    IN /\ EngineOnly
       /\ edges[e].status = "Invalidated"
       /\ last.op = "invalidateEdge" /\ last.id = e
       /\ stakes[p][k] > edges[e].stakeAmount
       /\ locked[p][k]
       /\ unstake(World, p, k).err = "Stake is locked"


\* ------------------------------------------------------------------------
\*  SpecCustody: deposits, withdrawals, the privileged vault operations and
\*  disputes over one stake key
\* ------------------------------------------------------------------------
CustodyStakers == {"p1", "p2"}
CustodySlashBps == {3333}
CustodyTransfers == {3}

\* Deposits go into empty records; the direct slash and transfer act on a
\* record that no slash or transfer has reduced below CustodyFloor.
CustodyFloor == 12
KStake ==
  \E u \in CustodyStakers :
    stakes[u][VaultKey] = 0 /\ StakeTx({u}, {0}, {17})
KUnstake == UnstakeTx(CustodyStakers, {0})
KCreateEdge ==
  /\ nextEdgeId < DisputeEdges
  /\ CreateEdgeTx({"p1"}, ExistingQuanta, {"Depends"}, {9000})
KRemoveEdge == RemoveEdgeTx({"p1"}, {0})
KDisputeEdge == DisputeEdgeTx({"p2"}, {0})
KSetAuthorized ==
  \E status \in BOOLEAN :
    Commit("setAuthorized", "adm", 0, setAuthorized(World, "adm", "adm", status))
KSlash ==
  \E bps \in CustodySlashBps :
    /\ stakes["p1"][VaultKey] > CustodyFloor
    /\ Commit("slash", "adm", 0, slash(World, "adm", "p1", VaultKey, bps))
KTransferStake ==
  \E amount \in CustodyTransfers :
    /\ stakes["p1"][VaultKey] >= CustodyFloor
    /\ Commit("transferStake", "adm", 0,
           transferStake(World, "adm", "p1", VaultKey, "p2", amount))
KRefundStake ==
  Commit("refundStake", "adm", 0, refundStake(World, "adm", "p1", VaultKey))

NextCustody ==
  \/ KStake
  \/ KUnstake
  \/ KCreateEdge
  \/ KRemoveEdge
  \/ KDisputeEdge
  \/ KSetAuthorized
  \/ KSlash
  \/ KTransferStake
  \/ KRefundStake

SpecCustody == Init /\ [][NextCustody]_vars

\* The sum of the stake records st over the (principal, key) pairs of S.
RECURSIVE SumStakesOf(_, _)
SumStakesOf(st, S) ==
  IF S = {} THEN 0
  ELSE LET x == CHOOSE y \in S : TRUE
       IN st[x[1]][x[2]] + SumStakesOf(st, S \ {x})
TotalStaked(st) ==
  SumStakesOf(st, UNION {{<<u, k>> : k \in DOMAIN st[u]} : u \in DOMAIN st})
\* Tokens the vault holds beyond its stake records: what slashes left behind.
SlashedHeld == balanceOf[VaultAddr] - TotalStaked(stakes)

\* C28: the vault's token balance is the sum of the stake records plus what
\* has been slashed so far. It starts with neither, a slash moves the
\* slashed part out of a record and no tokens, a dispute splits the
\* proposer's record S into the slashed tenth, the challenger's share paid
\* out of the vault and the remaining record, and every other operation
\* moves exactly the tokens by which it changes the records.
C28_VaultBalanceIsStakesPlusSlashed ==
  /\ SlashedHeld = 0
  /\ [](SlashedHeld >= 0)
  /\ [][LET dBal == balanceOf'[VaultAddr] - balanceOf[VaultAddr]
            dSum == TotalStaked(stakes') - TotalStaked(stakes)
        IN IF last'.op = "slash"
             THEN dBal = 0 /\ dSum <= 0
           ELSE IF last'.op = "disputeEdge"
             THEN LET p == edges[last'.id].proposer
                      c == last'.sender
                      k == _edgeStakeKey(last'.id)
                      S == stakes[p][k]
                      slashed == (S * DISPUTE_SLASH_BPS) \div BPS
                      transferred == ((S - slashed) * CHALLENGER_SHARE_BPS) \div BPS
                      remaining == stakes'[p][k]
                  IN /\ S = slashed + transferred + remaining
                     /\ dBal = -transferred
                     /\ dSum = -(slashed + transferred)
                     /\ balanceOf'[c] >= balanceOf[c] + transferred
           ELSE dBal = dSum]_vars

\* A dispute has just split the proposer's record, part of it paid to the
\* challenger and part left, after an earlier direct slash had already left
\* tokens in the vault.
C28_Witness ==
  /\ last.op = "disputeEdge"
  /\ stakes[edges[last.id].proposer][_edgeStakeKey(last.id)] > 0
  /\ SlashedHeld > (edges[last.id].stakeAmount * DISPUTE_SLASH_BPS) \div BPS
  /\ balanceOf[VaultAddr] = TotalStaked(stakes) + SlashedHeld
  /\ balanceOf["p2"] > 0


CreateArgs == ExistingQuanta \X ExistingQuanta \X {"Depends", "Supports"}
\* The answers of the checks that createEdge makes before it reads the stake.
EarlierErrors ==
  {"Self-reference", "Confidence out of range", "Source quantum does not exist",
   "Target quantum does not exist", "Edge already exists", "Would create cycle"}
CreateIn(w, u, a) == createEdge(w, u, a[1], a[2], a[3], EVIDENCE_CID, 9000)

\* C29: createEdge by a caller changes no stake amount, and no lock flag but
\* the caller's under the key of the edge id it allocates. When another
\* principal holds the minimum stake under that same key, its record is as
\* locked as before and, unlocked, can be withdrawn in full; its own
\* createEdge then gets past the stake check exactly when it holds the
\* minimum stake under the key of the following id.
C29_CreateLocksOnlyCallersKey ==
  \A u \in Stakers, a \in CreateArgs :
    LET r == CreateIn(World, u, a)
        k == _edgeStakeKey(nextEdgeId)
        following == _edgeStakeKey(nextEdgeId + 1)
    IN /\ r.w.stakes = stakes
       /\ r.w.locked = IF r.err = "ok" THEN [locked EXCEPT ![u][k] = TRUE] ELSE locked
       /\ r.err = "ok" =>
            \A v \in Stakers \ {u} :
              stakes[v][k] >= config.minEdgeStake =>
                /\ r.w.locked[v][k] = locked[v][k]
                /\ ~locked[v][k] =>
                     LET un == unstake(r.w, v, k)
                     IN /\ un.err = "ok"
                        /\ un.w.stakes[v][k] = 0
                        /\ un.w.balanceOf[v] = balanceOf[v] + stakes[v][k]
                /\ \A b \in CreateArgs :
                     CreateIn(r.w, v, b).err \in
                       EarlierErrors \cup
                         (IF stakes[v][following] >= config.minEdgeStake
                            THEN {"ok"} ELSE {"Insufficient stake"})

\* Both stakers had staked under the key of edge 0; p2's createEdge took the
\* id, p1's is now refused for want of stake and p1 can withdraw in full.
C29_Witness ==
  /\ last.op = "createEdge" /\ last.sender = "p2" /\ last.id = 0
  /\ nextEdgeId = 1
  /\ locked["p2"][_edgeStakeKey(0)]
  /\ stakes["p1"][_edgeStakeKey(0)] = MIN_EDGE_STAKE
  /\ ~locked["p1"][_edgeStakeKey(0)]
  /\ \E b \in CreateArgs : CreateIn(World, "p1", b).err = "Insufficient stake"
  /\ \A b \in CreateArgs : CreateIn(World, "p1", b).err # "ok"
  /\ unstake(World, "p1", _edgeStakeKey(0)).err = "ok"
  /\ unstake(World, "p1", _edgeStakeKey(0)).w.balanceOf["p1"] = MIN_EDGE_STAKE


\* The flags of the edge ids in play, as (edge id, index) pairs.
FlagSlots(wf) == UNION {{<<e, i>> : i \in 1..Len(wf[e])} : e \in DisputeIds}
RewardedSlots(wf) == {x \in FlagSlots(wf) : wf[x[1]][x[2]].rewarded}
\* A dispute happens in this step.
DisputeStep == \E e \in DisputeIds : edges[e].status # "Disputed" /\ edges'[e].status = "Disputed"

\* C30: every flag pays at most one bounty. A rewarded flag is resolved; a
\* resolved flag keeps its record in every later step, a later invalidation
\* of the same edge included; and what a step mints is the dispute reward,
\* if it is a dispute, plus one bounty for each flag that the step turns
\* from unrewarded to rewarded.
C30_OneBountyPerFlag ==
  /\ [](\A x \in FlagSlots(weakLinkFlags) :
          weakLinkFlags[x[1]][x[2]].rewarded => weakLinkFlags[x[1]][x[2]].resolved)
  /\ [][/\ \A x \in FlagSlots(weakLinkFlags) :
             /\ x \in FlagSlots(weakLinkFlags')
             /\ weakLinkFlags[x[1]][x[2]].resolved =>
                  weakLinkFlags'[x[1]][x[2]] = weakLinkFlags[x[1]][x[2]]
        /\ totalMinted' - totalMinted =
             (IF DisputeStep THEN config.edgeSurvivalReward ELSE 0)
               + config.weakLinkBounty
                   * Cardinality(RewardedSlots(weakLinkFlags') \ RewardedSlots(weakLinkFlags))]_vars

\* The edge was disputed, which paid the bounty of its flags, and has now
\* been invalidated, which paid nothing more.
C30_Witness ==
  /\ last.op = "invalidateEdge"
  /\ edges[last.id].status = "Invalidated"
  /\ RewardedSlots(weakLinkFlags) # {}
  /\ \A x \in FlagSlots(weakLinkFlags) : weakLinkFlags[x[1]][x[2]].resolved
  /\ totalMinted = InitialBalance + config.edgeSurvivalReward
                     + config.weakLinkBounty * Cardinality(RewardedSlots(weakLinkFlags))


\* C31: a flag is resolved exactly when the status of its edge is Disputed
\* or Invalidated, and a flag that is not resolved is not rewarded.
C31_ResolvedIffEdgeCondemned ==
  \A x \in FlagSlots(weakLinkFlags) :
    LET f == weakLinkFlags[x[1]][x[2]]
    IN /\ f.resolved <=> edges[x[1]].status \in {"Disputed", "Invalidated"}
       /\ ~f.resolved => ~f.rewarded


\* The operation leaves every stored score record as it is.
KeepsScores(r) == r.w.propagatedScores = propagatedScores
FrameCallers == Principals \cup {DagAddr}

\* C32: propagateScore(c) writes the stored score record of c and of no
\* other claim; createEdge, removeEdge, disputeEdge, invalidateEdge,
\* flagWeakLink, claimEdgeReward, setConfig, setWeights and the operations
\* of the vault write none, whoever calls them and whether they succeed.
C32_OnlyPropagationWritesScores ==
  /\ \A u \in Principals :
       /\ \A c \in ExistingQuanta, x \in DOMAIN propagatedScores :
            x # c => propagateScore(World, u, c).w.propagatedScores[x] = propagatedScores[x]
       /\ \A s \in ExistingQuanta, t \in ExistingQuanta, ty \in EdgeTypes :
            KeepsScores(createEdge(World, u, s, t, ty, EVIDENCE_CID, 9000))
       /\ \A e \in DisputeIds :
            /\ KeepsScores(removeEdge(World, u, e))
            /\ KeepsScores(disputeEdge(World, u, e))
            /\ KeepsScores(invalidateEdge(World, u, e))
            /\ KeepsScores(flagWeakLink(World, u, e))
            /\ KeepsScores(claimEdgeReward(World, u, e))
            /\ KeepsScores(stake(World, u, _edgeStakeKey(e), 17))
            /\ KeepsScores(unstake(World, u, _edgeStakeKey(e)))
       /\ \A c \in PropConfigs : KeepsScores(setConfig(World, u, c))
       /\ \A x \in WeightChoices : KeepsScores(setWeights(World, u, x[1], x[2], x[3], x[4]))
  /\ \A u \in FrameCallers, v \in Principals, e \in DisputeIds :
       /\ KeepsScores(lockStake(World, u, v, _edgeStakeKey(e)))
       /\ KeepsScores(unlockStake(World, u, v, _edgeStakeKey(e)))
       /\ KeepsScores(slash(World, u, v, _edgeStakeKey(e), DISPUTE_SLASH_BPS))
       /\ KeepsScores(transferStake(World, u, v, _edgeStakeKey(e), "p2", 1))
       /\ KeepsScores(refundStake(World, u, v, _edgeStakeKey(e)))

\* A claim was propagated as an axiom; an edge has since made it depend on
\* another claim, no propagation has followed, and the
\* stored record is not the record a propagation would store now.
C32_Witness ==
  /\ last.op \in {"createEdge", "invalidateEdge", "disputeEdge"}
  /\ \E c \in ExistingQuanta :
       /\ propagatedScores[c].chainScore > 0
       /\ propagatedScores[c].depth = 0
       /\ ActiveInto(c, "Depends") # {}
       /\ Stored(c).chainScore # propagatedScores[c].chainScore
       /\ Stored(c).depth # propagatedScores[c].depth


\* The lists handed to the batch: both orders of a pair, a repeated claim, a
\* claim the registry does not hold, the empty list.
OrderedLists == BatchLists \cup {<<1, 0>>, <<0, 1, 0>>, << >>}
\* The world after the separate transactions propagateScore(ids[i]),
\* propagateScore(ids[i+1]), ... sent by u from world w: one that reverts
\* leaves the world to the next as it found it.
RECURSIVE SeparateCalls(_, _, _, _)
SeparateCalls(w, u, ids, i) ==
  IF i > Len(ids) THEN w
  ELSE SeparateCalls(propagateScore(w, u, ids[i]).w, u, ids, i + 1)
\* Each of those separate transactions succeeds.
RECURSIVE AllSucceed(_, _, _, _)
AllSucceed(w, u, ids, i) ==
  \/ i > Len(ids)
  \/ LET r == propagateScore(w, u, ids[i])
     IN r.err = "ok" /\ AllSucceed(r.w, u, ids, i + 1)

\* C33 as stated: batchPropagateScores(ids) leaves the state that the
\* separate calls propagateScore(ids[1]), ..., propagateScore(ids[n]) by the
\* same caller leave.
C33_BatchEqualsSeparateCalls ==
  \A u \in Principals, l \in OrderedLists :
    batchPropagateScores(World, u, l).w = SeparateCalls(World, u, l, 1)

\* C33 amended: when each of the separate calls succeeds, the batch succeeds
\* and leaves the state they leave, the incentive minted once per element;
\* when one of them fails the batch is rejected and leaves the state it
\* started in.
C33_BatchEqualsSeparateCallsOrReverts ==
  \A u \in Principals, l \in OrderedLists :
    LET r == batchPropagateScores(World, u, l)
    IN IF AllSucceed(World, u, l, 1)
         THEN /\ r.err = "ok"
              /\ r.w = SeparateCalls(World, u, l, 1)
              /\ r.w.totalMinted = totalMinted + Len(l) * config.propagationReward
         ELSE r.err # "ok" /\ r.w = World

\* Claim 1 depends on claim 0, whose stored score is out of date, so that the
\* order of the list shows in the records the batch leaves; the batch pays
\* the incentive twice.
C33_Witness ==
  /\ last.op = "createEdge"
  /\ ActiveInto(1, "Depends") # {}
  /\ batchPropagateScores(World, "adm", <<0, 1>>).err = "ok"
  /\ batchPropagateScores(World, "adm", <<0, 1>>).w.propagatedScores
       # batchPropagateScores(World, "adm", <<1, 0>>).w.propagatedScores
  /\ batchPropagateScores(World, "adm", <<0, 1>>).w.totalMinted
       = totalMinted + 2 * config.propagationReward


\* The lists that name every existing claim once.
Orderings ==
  {l \in [1..Cardinality(ExistingQuanta) -> ExistingQuanta] :
     \A c \in ExistingQuanta : \E i \in DOMAIN l : l[i] = c}
\* In the list l every claim comes after the claims it depends on.
DependencyOrder(l) ==
  \A i \in DOMAIN l, j \in DOMAIN l :
    l[j] \in Dependencies(l[i]) => j < i
\* Propagating claim c in world w stores the record that w holds for c.
Settled(w, c) ==
  LET r == propagateScore(w, "adm", c)
  IN r.err = "ok" /\ r.w.propagatedScores[c] = w.propagatedScores[c]

\* C34: after the claims have been propagated in an order in which each
\* comes after the claims it depends on, propagating any claim again stores
\* the record it already has (the time standing still).
C34_DependencyOrderSettlesScores ==
  \A l \in Orderings :
    DependencyOrder(l) =>
      LET r == batchPropagateScores(World, "adm", l)
      IN r.err = "ok" /\ \A c \in ExistingQuanta : Settled(r.w, c)

\* Claim 2 depends on claim 1 and claim 1 on claim 0, the stored scores are
\* out of date, the order 0, 1, 2 settles them and the order 2, 1, 0, which
\* is no dependency order, does not.
C34_Witness ==
  /\ last.op = "createEdge"
  /\ 0 \in Dependencies(1) /\ 1 \in Dependencies(2)
  /\ \E c \in ExistingQuanta : ~Settled(World, c)
  /\ DependencyOrder(<<0, 1, 2>>) /\ ~DependencyOrder(<<2, 1, 0>>)
  /\ \A c \in ExistingQuanta :
       Settled(batchPropagateScores(World, "adm", <<0, 1, 2>>).w, c)
  /\ \E c \in ExistingQuanta :
       ~Settled(batchPropagateScores(World, "adm", <<2, 1, 0>>).w, c)


\* ------------------------------------------------------------------------
\*  SpecSpiral: the chain q0 -> q1 -> ... is closed into a ring, which the
\*  bounded cycle check lets through, and the claims are then propagated
\*  round the ring
\* ------------------------------------------------------------------------
\* The claim whose turn it is: the one after the claim propagated last.
Turn == IF last.op = "propagateScore" THEN (last.id + 1) % DeepQuanta ELSE 0
SpiralPropagateScore ==
  /\ MissingLinks = {}
  /\ last.op \in {"createEdge", "propagateScore"}
  /\ PropagateScoreTx({"adm"}, {Turn})

NextSpiral ==
  \/ DeepStakeTx
  \/ DeepCreateEdge
  \/ SpiralPropagateScore

SpecSpiral == DeepInit /\ [][NextSpiral]_vars

MaxOf(S) == CHOOSE x \in S : \A y \in S : y <= x
\* No claim depends on itself through Active Depends edges.
Acyclic ==
  \A c \in ExistingQuanta :
    c \notin DependsWithin(DependencyMap, {c}, Cardinality(ExistingQuanta))
\* The number of edges on the longest chain of dependencies below claim c.
RECURSIVE LongestChain(_, _)
LongestChain(dep, c) ==
  IF dep[c] = {} THEN 0
  ELSE 1 + MaxOf({LongestChain(dep, d) : d \in dep[c]})

\* C35: propagateScore stores depth 0 for a claim with no Active Depends
\* edge and otherwise 1 + the greatest stored depth of its dependencies;
\* and once the claims of an acyclic graph have been propagated in
\* dependency order, so that propagating any of them again stores what is
\* stored, the stored depth of each is the length of its longest chain of
\* Active Depends edges.
C35_DepthIsOnePlusDeepestDependency ==
  /\ \A c \in ExistingQuanta :
       Stored(c).depth =
         IF Dependencies(c) = {} THEN 0
         ELSE 1 + MaxOf({propagatedScores[d].depth : d \in Dependencies(c)})
  /\ (Acyclic /\ \A c \in ExistingQuanta : Settled(World, c)) =>
       \A c \in ExistingQuanta :
         propagatedScores[c].depth = LongestChain(DependencyMap, c)


\* The world in which edge e has status st and type ty.
WithEdgeAs(e, st, ty) ==
  [World EXCEPT !.edges[e].status = st, !.edges[e].edgeType = ty]
\* The world in which edge e is in no adjacency list of claim c.
WithoutEdge(c, e) ==
  [World EXCEPT !.outgoingEdges[c] = SelectSeq(@, LAMBDA x : x # e)]
RecordIn(w, c) == propagateScore(w, "adm", c).w.propagatedScores[c]
\* Status and type of the edges that propagateScore is to pass over.
Uncounted ==
  ({"Disputed", "Removed", "Invalidated"} \X EdgeTypes) \cup {<<"Active", "Supports">>}

\* C36: an edge into a claim that is not Active, or is a Supports edge,
\* leaves the record that propagateScore stores for the claim as it is
\* without the edge; a claim whose Depends edges are all of that kind is
\* stored with depth 0.
C36_OnlyActiveEdgesCount ==
  \A c \in ExistingQuanta :
    LET into == {e \in CreatedEdges : edges[e].targetQuantumId = c}
    IN /\ \A e \in into, x \in Uncounted :
            RecordIn(WithEdgeAs(e, x[1], x[2]), c) = RecordIn(WithoutEdge(c, e), c)
       /\ (\A e \in into : edges[e].edgeType = "Depends" => edges[e].status # "Active")
            => Stored(c).depth = 0

\* A claim has a removed Depends edge and an Active one; the record stored
\* for it is the one stored without the removed edge, one level above the
\* Active edge's source, and would be another if the removed edge counted.
C36_Witness ==
  /\ last.op = "removeEdge"
  /\ \E c \in ExistingQuanta, e \in CreatedEdges, f \in CreatedEdges :
       /\ edges[e].targetQuantumId = c /\ edges[e].status = "Removed"
       /\ edges[e].edgeType = "Depends"
       /\ ActiveInto(c, "Depends") = {f}
       /\ Stored(c) = RecordIn(WithoutEdge(c, e), c)
       /\ Stored(c) # RecordIn(WithEdgeAs(e, "Active", "Depends"), c)
       /\ Stored(c).depth = 1 + propagatedScores[edges[f].sourceQuantumId].depth


\* ------------------------------------------------------------------------
\*  SpecChain: claims of one intrinsic score linked by Depends edges
\* ------------------------------------------------------------------------
ChainConfidences == {100, 9000, 10000}
ChainScores == {TRUTH_SCORES, FULL_SCORES}

\* Every claim is registered with the same sub-scores.
ChainInit ==
  \E sc \in ChainScores :
    InitWorldWith(EdgeIds, PropQuantumIds, PropQuanta,
                  [h \in Holders |-> IF h \in Proposers THEN InitialBalance ELSE 0],
                  InitialBalance * Cardinality(Proposers),
                  [q \in PropQuantumIds |-> sc])

ChainStakeAndCreateEdge ==
  /\ nextEdgeId < MaxEdges
  /\ \E s \in ExistingQuanta, t \in ExistingQuanta, conf \in ChainConfidences :
       LET r == stakeAndCreateEdge(World, "p1", s, t, "Depends", conf)
       IN s < t /\ r.err = "ok" /\ Commit("createEdge", "p1", nextEdgeId, r)
ChainBatchPropagateScores ==
  /\ totalMinted < InitialBalance * Cardinality(Proposers)
                     + MaxPropagations * DefaultConfig.propagationReward
  /\ BatchPropagateScoresTx({"adm"}, {l \in Orderings : DependencyOrder(l)})

NextChain ==
  \/ ChainStakeAndCreateEdge
  \/ PPropagateScore
  \/ ChainBatchPropagateScores

SpecChain == ChainInit /\ [][NextChain]_vars

\* The Active Depends edges.
Links == UNION {ActiveInto(c, "Depends") : c \in ExistingQuanta}
\* The chain score world w stores for the claim at either end of edge e.
SourceScore(w, e) == w.propagatedScores[edges[e].sourceQuantumId].chainScore
TargetScore(w, e) == w.propagatedScores[edges[e].targetQuantumId].chainScore
\* The default configuration is in force and all claims have one intrinsic
\* score.
EqualChain ==
  /\ config = DefaultConfig
  /\ \A c \in ExistingQuanta, d \in ExistingQuanta : Intrinsic(c) = Intrinsic(d)

MintErrors == {"Exceeds max supply"}

\* C38: propagateScore completes for every existing claim, whatever the
\* number of Active edges on it and whatever depths are stored for its
\* dependencies: its counters and its depth arithmetic never abort the call,
\* which fails only if the token refuses to mint the incentive.
C38_PropagateScoreAlwaysCompletes ==
  \A c \in ExistingQuanta :
    LET r == propagateScore(World, "adm", c)
    IN \/ r.err = "ok" /\ r.w.propagatedScores[c].lastUpdated = now
       \/ r.err \in MintErrors


\* Basis points on either side of the bounds that slash accepts.
ProbedBps == {0, 1, 3333, BPS, BPS + 1}

\* C39: called by an authorised caller on a record that is not empty, slash
\* with 0 < bps <= 10000 takes floor(amount * bps / 10000) off the record and
\* changes nothing else, no token balance and no lock flag; with bps = 0 or
\* bps > 10000 it is rejected and changes nothing.
C39_SlashTakesFloorShareOnly ==
  \A sender \in authorized, u \in CustodyStakers, bps \in ProbedBps :
    LET r == slash(World, sender, u, VaultKey, bps)
        staked == stakes[u][VaultKey]
    IN /\ (bps \in 1..BPS /\ staked > 0) =>
            /\ r.err = "ok"
            /\ r.w = [World EXCEPT
                        !.stakes[u][VaultKey] = staked - (staked * bps) \div BPS]
            /\ r.w.balanceOf = balanceOf /\ r.w.locked = locked
       /\ (bps = 0 \/ bps > BPS) => Rejected(r, "Invalid bps")

\* A third of a locked record of 17 has just been slashed: 5 are gone from
\* the record, it is still locked, and the staker's balance is what it was
\* after the deposit.
C39_Witness ==
  /\ last.op = "slash"
  /\ stakes["p1"][VaultKey] = 17 - (17 * 3333) \div BPS
  /\ locked["p1"][VaultKey]
  /\ balanceOf["p1"] = InitialBalance - 17
  /\ slash(World, "adm", "p1", VaultKey, BPS + 1).err = "Invalid bps"


\* The number of places at which id e stands in the list l.
Occurrences(l, e) == Cardinality({i \in DOMAIN l : l[i] = e})
\* Every argument list that the edge lifecycle hands to createEdge.
AnyCreateArgs == QuantumIds \X QuantumIds \X EdgeTypes \X Confidences

\* C40: edge ids are allocated consecutively from 0. nextEdgeId starts at 0
\* and moves only by a successful createEdge, which gives the edge the id
\* nextEdgeId had and adds one to it; a rejected createEdge leaves it alone.
\* The id of every created edge stands exactly once in the depends-on list
\* of the edge's target and exactly once in the depended-on-by list of its
\* source, whatever the status of the edge has become.
C40_EdgeIdsConsecutiveAndListedOnce ==
  /\ nextEdgeId = 0
  /\ [](/\ \A e \in CreatedEdges :
             /\ edges[e].id = e
             /\ Occurrences(outgoingEdges[edges[e].targetQuantumId], e) = 1
             /\ Occurrences(incomingEdges[edges[e].sourceQuantumId], e) = 1
        /\ \A u \in Principals, a \in AnyCreateArgs :
             LET r == createEdge(World, u, a[1], a[2], a[3], EVIDENCE_CID, a[4])
             IN IF r.err = "ok"
                  THEN /\ r.w.nextEdgeId = nextEdgeId + 1
                       /\ r.w.edges[nextEdgeId].id = nextEdgeId
                  ELSE r.w.nextEdgeId = nextEdgeId)
  /\ [][IF last'.op = "createEdge" /\ last' # last
          THEN nextEdgeId' = nextEdgeId + 1 /\ last'.id = nextEdgeId
          ELSE nextEdgeId' = nextEdgeId]_vars

\* Two edges have been created, with ids 0 and 1, and one of them has since
\* been removed and the other disputed; each id still stands once in the
\* lists of its target and of its source.
C40_Witness ==
  /\ nextEdgeId = 2
  /\ {edges[0].status, edges[1].status} = {"Removed", "Disputed"}
  /\ \A e \in {0, 1} :
       /\ edges[e].id = e
       /\ Occurrences(outgoingEdges[edges[e].targetQuantumId], e) = 1
       /\ Occurrences(incomingEdges[edges[e].sourceQuantumId], e) = 1

====
